---- MODULE Spec2Model ----
(***************************************************************************)
(* Model of the dual-track playback engine, core_gui/audio_player.py       *)
(* (class AudioPlayer), together with the part of the host event loop of   *)
(* main.py that drives it.                                                 *)
(*                                                                         *)
(* Units.  Seconds are counted in ticks of 1/TicksPerSecond s, so every    *)
(* float of the program that holds seconds is an integer number of ticks.  *)
(* Sample rates are counted in model frames per second: LowRate stands for *)
(* the 44100 entry of the sample-rate combo and HighRate for the 48000     *)
(* entry.  Samples are counted in tenths, volumes in percent (the host     *)
(* divides the slider value by 100), mixed samples in thousandths.         *)
(***************************************************************************)
EXTENDS Integers, Sequences, FiniteSets, Bags, TLC

(***************************************************************************)
(* Bounds of the model                                                     *)
(***************************************************************************)
TicksPerSecond == 2
MaxStreams == 3
BlockFrames == 16
LongSeconds == 16
ShortSeconds == 6
MixFrames == 3

(***************************************************************************)
(* Program constants                                                       *)
(***************************************************************************)
SkipSeconds == 5
SkipTicks == SkipSeconds * TicksPerSecond
InitInstVolume == 70
InitVocalVolume == 100
SliderMax == 150

LowRate == 1
HighRate == TicksPerSecond

NoneT == -1          \* None where the program holds seconds (never negative)
NoDev == 0           \* None as a device id
NoStream == 0        \* None as a stream reference

StreamIds == 1..MaxStreams

Min(a, b) == IF a < b THEN a ELSE b
Max(a, b) == IF a > b THEN a ELSE b

(***************************************************************************)
(* Files on disk.  Path 0 is a path that is None or does not exist, path 3 *)
(* exists but cannot be decoded.                                           *)
(***************************************************************************)
NoPath == 0
FileLong == 1
FileShort == 2
FileCorrupt == 3

PathExists(p) == p # NoPath
FileSeconds(p) == IF p = FileLong THEN LongSeconds ELSE ShortSeconds
FileSample(p, i) == IF p = FileLong THEN <<8, -8>> ELSE <<6, -6>>

NoneBuf == [isNone |-> TRUE, rows |-> <<>>]
ArrayBuf(rows) == [isNone |-> FALSE, rows |-> rows]
BufLen(buf) == Len(buf.rows)

\* AudioSegment.from_file(path).set_channels(2).set_frame_rate(target_sr),
\* followed by the conversion to an (n, 2) float32 array
DecodeRows(p, sr) == [i \in 1..(FileSeconds(p) * sr) |-> FileSample(p, i)]

(***************************************************************************)
(* Arithmetic of the program                                               *)
(***************************************************************************)
\* int(x) of Python for the rational x = n / d, d > 0: truncation toward 0
IntTrunc(n, d) == IF n >= 0 THEN n \div d ELSE -((-n) \div d)

\* int(seconds * sample_rate)
FrameOfSeconds(sec, sr) == IntTrunc(sec * sr, TicksPerSecond)

\* float(frame) / float(sample_rate)
SecondsOfFrame(frame, sr) == (frame * TicksPerSecond) \div sr

\* a clamp that forgets the upper end of the range
ClampAtZeroOnly(sec, dur) == Max(0, sec)

\* max(0.0, min(seconds, duration))
ClampSeconds(sec, dur) == Max(0, Min(sec, dur))

\* np.clip(x, -1.0, 1.0) on thousandths
Clip(x) == IF x < -1000 THEN -1000 ELSE IF x > 1000 THEN 1000 ELSE x

ZeroRow == <<0, 0>>
ZeroChunk(frames) == [k \in 1..frames |-> ZeroRow]

\* chunk[:available] = data[start : start + available] on a zeroed chunk
FillChunk(rows, start, frames) ==
    LET len == Len(rows)
        available == Min(frames, len - start)
    IN  [k \in 1..frames |->
            IF start < len /\ k <= available THEN rows[start + k] ELSE ZeroRow]

ScaleRow(row, vol) == <<row[1] * vol, row[2] * vol>>
ClipRow(row) == <<Clip(row[1]), Clip(row[2])>>
AddRow(r1, r2) == <<r1[1] + r2[1], r1[2] + r2[2]>>

\* a Monitor mix that forgets np.clip
HpMixUnclipped(instBuf, vocBuf, start, frames, volInst, volVoc) ==
    IF instBuf.isNone \/ vocBuf.isNone
    THEN ZeroChunk(frames)
    ELSE LET inst_chunk == FillChunk(instBuf.rows, start, frames)
             voc_chunk == FillChunk(vocBuf.rows, start, frames)
         IN  [k \in 1..frames |->
                AddRow(ScaleRow(inst_chunk[k], volInst),
                       ScaleRow(voc_chunk[k], volVoc))]

\* the block _hp_callback writes to outdata
HpMix(instBuf, vocBuf, start, frames, volInst, volVoc) ==
    IF instBuf.isNone \/ vocBuf.isNone
    THEN ZeroChunk(frames)
    ELSE LET inst_chunk == FillChunk(instBuf.rows, start, frames)
             voc_chunk == FillChunk(vocBuf.rows, start, frames)
         IN  [k \in 1..frames |->
                ClipRow(AddRow(ScaleRow(inst_chunk[k], volInst),
                               ScaleRow(voc_chunk[k], volVoc)))]

\* a Monitor stream that stops at the end of either buffer
HpStopsAtEither(instBuf, vocBuf, start) ==
    \/ instBuf.isNone \/ vocBuf.isNone
    \/ start >= BufLen(instBuf)
    \/ start >= BufLen(vocBuf)

\* whether _hp_callback raises CallbackStop
HpStops(instBuf, vocBuf, start) ==
    \/ instBuf.isNone \/ vocBuf.isNone
    \/ (start >= BufLen(instBuf) /\ start >= BufLen(vocBuf))

\* the block _vp_callback writes to outdata
VpMix(instBuf, start, frames, volInst) ==
    IF instBuf.isNone \/ start >= BufLen(instBuf)
    THEN ZeroChunk(frames)
    ELSE LET chunk == FillChunk(instBuf.rows, start, frames)
         IN  [k \in 1..frames |-> ScaleRow(chunk[k], volInst)]

\* whether _vp_callback raises CallbackStop (before it advances the cursor)
VpStops(instBuf, start) == instBuf.isNone \/ start >= BufLen(instBuf)

(***************************************************************************)
(* State                                                                   *)
(***************************************************************************)
VARIABLES
    audio_loaded, instrumental_audio_data, vocal_audio_data, sample_rate,
    duration, position, headphone_device_id, virtual_device_id,
    headphone_stream, virtual_stream, playing, hp_frame, vp_frame,
    instrumental_volume, vocal_volume, last_error,
    pending_seek_absolute, pending_seek_delta, seek_timer,
    stream_lock, restart_lock,
    bad_devices,     \* devices whose sd.OutputStream(...) / start() raises
    streams,         \* the sd.OutputStream objects that exist
    thr,             \* bag of background threads: workers, timers, monitors
    timers_made,     \* number of threading.Timer objects created so far
    ctl,             \* the control thread (host event loop)
    window,          \* events written to the host and not yet read
    emitted,         \* how often each event key was written
    last_error_event,\* payload of the last '-PLAYBACK_ERROR-' event
    session_ended,   \* '-PLAYBACK_ENDED-' events since the last open
    open_failed,     \* the most recent _open_streams started no stream
    hist,            \* host operations issued so far
    todo             \* what the user and the devices will do next

bufs == <<instrumental_audio_data, vocal_audio_data, duration>>
cursors == <<position, hp_frame, vp_frame>>
refs == <<headphone_stream, virtual_stream>>
cfg == <<headphone_device_id, virtual_device_id, instrumental_volume,
         vocal_volume, bad_devices>>
pend == <<pending_seek_absolute, pending_seek_delta, seek_timer, timers_made>>
locks == <<stream_lock, restart_lock>>
notes == <<last_error_event, session_ended, open_failed>>
script == <<hist, todo>>
vars == <<audio_loaded, sample_rate, playing, last_error, bufs, cursors, refs,
          cfg, pend, locks, streams, thr, ctl, window, emitted, notes, script>>

\* the locals of a thread; every kind of thread uses some of them
Dead == [kind |-> "none", pc |-> "-", id |-> 0, arg |-> 0, frame |-> 0,
         rate |-> 0, started |-> FALSE, pabs |-> NoneT, pdelta |-> 0,
         ip |-> 0, vo |-> 0, gn |-> 0, gfwd |-> FALSE, gpos |-> 0,
         gatt |-> 0, gcur |-> 0, gdur |-> 0, gabs |-> FALSE, glast |-> 0,
         gclean |-> FALSE, snap |-> <<>>]
\* a stream object; until its first callback has returned it remembers the
\* start frame of the _open_streams call that started it (first, init)
NoStreamObj == [kind |-> "none", active |-> FALSE, cb |-> "idle",
                start |-> 0, n |-> 0, stop |-> FALSE, adv |-> FALSE,
                out |-> <<>>, first |-> FALSE, init |-> 0]
\* the control thread: where it is, the argument of the call it is in, what
\* the handler it is in does after that call, and when its input arrived
\* (req is the argument as the caller passed it, arg what the call made of it)
IdleCtl == [pc |-> "idle", arg |-> 0, req |-> 0, next |-> <<>>, when |-> "-"]
Call(pc, arg, next, when) ==
    [pc |-> pc, arg |-> arg, req |-> arg, next |-> next, when |-> when]
Return(c) == IF c.next = <<>> THEN IdleCtl
             ELSE Call(Head(c.next), 0, Tail(c.next), c.when)
NoEvents == [load_ok |-> 0, load_err |-> 0, error |-> 0, ended |-> 0]

Threads == BagToSet(thr)
\* threading.Thread(target=...).start()
Spawn(T, rec) == T (+) SetToBag({rec})
\* the thread returns
Exit(T, rec) == T (-) SetToBag({rec})
\* the thread takes a step that changes its locals
Step(T, rec, new) == Spawn(Exit(T, rec), new)
FreeStreams(S) == {s \in StreamIds : S[s].kind = "none"}
LowestFreeStream(S) ==
    CHOOSE s \in FreeStreams(S) : \A u \in FreeStreams(S) : s <= u

Bump(key) == [emitted EXCEPT ![key] = @ + 1]

\* AudioPlayer.__init__
InitEngine ==
    /\ audio_loaded = FALSE
    /\ instrumental_audio_data = NoneBuf
    /\ vocal_audio_data = NoneBuf
    /\ sample_rate = LowRate
    /\ duration = 0
    /\ position = 0
    /\ headphone_stream = NoStream
    /\ virtual_stream = NoStream
    /\ playing = FALSE
    /\ hp_frame = 0
    /\ vp_frame = 0
    /\ last_error = <<>>
    /\ pending_seek_absolute = NoneT
    /\ pending_seek_delta = 0
    /\ seek_timer = NoneT
    /\ timers_made = 0
    /\ stream_lock = FALSE
    /\ restart_lock = FALSE

InitRest ==
    /\ streams = [s \in StreamIds |-> NoStreamObj]
    /\ thr = EmptyBag
    /\ ctl = IdleCtl
    /\ window = <<>>
    /\ emitted = NoEvents
    /\ last_error_event = <<>>
    /\ session_ended = 0
    /\ open_failed = FALSE
    /\ hist = <<>>

\* the device ids and volumes the host pushes into the engine at start-up
InitConfig(hp, vp, bad) ==
    /\ instrumental_volume = InitInstVolume
    /\ vocal_volume = InitVocalVolume
    /\ headphone_device_id = hp
    /\ virtual_device_id = vp
    /\ bad_devices = bad

OneDevice == <<1, NoDev, {}>>
TwoDevices == <<1, 2, {}>>
BroadcastBad == <<1, 2, {2}>>
AllBad == <<NoDev, 2, {NoDev, 1, 2}>>
\* the Broadcast device set to the device of the Monitor
SameDevice == <<1, 1, {}>>

\* One input of the user: the handler of the host it runs, when it arrives and
\* its arguments.  An input arrives "now" (whenever the host is idle), in a
\* "burst" (before the debounce timer of the request before it expires),
\* "late" (just after that timer has expired, before its function has taken
\* _seek_lock), "settled" (after the engine has come to rest) or "reopening"
\* (while a restart worker is between its _close_streams and its
\* _open_streams and every other thread sleeps).
Input(op, when, a, b, c) == [op |-> op, when |-> when, a |-> a, b |-> b, c |-> c]
Load(ip, vo, sr, when) == Input("load", when, ip, vo, sr)
PlayPause(when) == Input("play_pause", when, 0, 0, 0)
Forward(when) == Input("forward", when, 0, 0, 0)
Rewind(when) == Input("rewind", when, 0, 0, 0)
SeekTo(ticks, when) == Input("seek", when, ticks, 0, 0)
Tick(when) == Input("tick", when, 0, 0, 0)
Event(when) == Input("event", when, 0, 0, 0)
Stop(when) == Input("stop", when, 0, 0, 0)
Change(when) == Input("change", when, 0, 0, 0)

\* the long instrumental with the short vocal, at the low sample rate
LoadSong == Load(FileLong, FileShort, LowRate, "now")

\* three rapid presses of the forward button during playback
ForwardBurst ==
    <<LoadSong, PlayPause("settled"), Forward("settled"), Forward("burst"),
      Forward("burst"), Event("settled"), Event("settled")>>
\* two presses of the play button in succession, from Stopped and from Playing
PlayTwice == <<LoadSong, PlayPause("now"), PlayPause("now")>>
PauseTwice ==
    <<LoadSong, PlayPause("settled"), PlayPause("settled"),
      PlayPause("burst")>>
\* playback on two devices, stopped by the user
PlayAndStop ==
    <<LoadSong, PlayPause("settled"), Stop("settled"), Tick("settled")>>
PlayOnly == <<LoadSong, PlayPause("now")>>
\* seeks while paused, at the high sample rate
PausedSeeks ==
    <<Load(FileShort, FileLong, LowRate, "now"), SeekTo(7, "settled"),
      SeekTo(99, "now"), SeekTo(-3, "now"), Forward("now"), Rewind("now"),
      Rewind("now")>>
HighRateSeek ==
    <<Load(FileLong, FileShort, HighRate, "now"), SeekTo(7, "settled")>>
\* a skip during playback with the stop button pressed right after it
SkipThenStop ==
    <<LoadSong, PlayPause("settled"), Forward("now"), Stop("burst")>>
\* a reload that fails after the user picked another file and sample rate
FailedReload ==
    <<LoadSong, Change("settled"),
      Load(FileCorrupt, FileShort, HighRate, "settled"), Event("now"),
      Event("now"), Event("now")>>
\* absolute and relative seek requests mixed in one debounce window
SeekThenRewind ==
    <<LoadSong, PlayPause("settled"), SeekTo(99, "settled"),
      Rewind("burst")>>
SeekThenForward ==
    <<LoadSong, PlayPause("settled"), SeekTo(7, "settled"),
      Forward("burst")>>
RewindThenSeek ==
    <<LoadSong, PlayPause("settled"), Rewind("settled"), SeekTo(-3, "burst"),
      Forward("burst")>>

\* three moves of the progress slider in one debounce window during playback
SeekBurst ==
    <<LoadSong, PlayPause("settled"), SeekTo(7, "settled"),
      SeekTo(99, "burst"), SeekTo(9, "burst")>>

\* a skip during playback with the pause button pressed before the debounce
\* timer expires
SkipThenPause ==
    <<LoadSong, PlayPause("settled"), Forward("settled"),
      PlayPause("burst")>>

\* a press of the forward button that arrives as the timer of the press
\* before it expires
LateForward ==
    <<Load(FileShort, FileShort, LowRate, "now"), PlayPause("settled"),
      Forward("settled"), Forward("late")>>

\* one song played at the high sample rate: two callbacks reach its end
PlayHighRate ==
    <<Load(FileLong, FileShort, HighRate, "now"), PlayPause("now")>>

\* a pause in the middle of the track and the play button pressed again
PauseResume ==
    <<LoadSong, PlayPause("settled"), PlayPause("settled"),
      PlayPause("settled")>>

\* a move of the progress slider that arrives while the restart of a skip
\* is reopening the streams
SeekDuringRestart ==
    <<Load(FileShort, FileShort, LowRate, "now"), PlayPause("settled"),
      Forward("settled"), SeekTo(3, "reopening")>>

Scenarios ==
    {<<OneDevice, ForwardBurst>>, <<OneDevice, PlayTwice>>,
     <<OneDevice, PauseTwice>>, <<TwoDevices, PlayAndStop>>,
     <<BroadcastBad, PlayOnly>>, <<AllBad, PlayOnly>>,
     <<OneDevice, PausedSeeks>>, <<OneDevice, FailedReload>>,
     <<OneDevice, SeekThenRewind>>, <<OneDevice, RewindThenSeek>>,
     <<OneDevice, HighRateSeek>>, <<OneDevice, SkipThenStop>>,
     <<OneDevice, SeekBurst>>, <<OneDevice, SeekThenForward>>,
     <<OneDevice, SkipThenPause>>,
     <<OneDevice, LateForward>>, <<SameDevice, PlayOnly>>,
     <<OneDevice, PauseResume>>}

Init ==
    /\ InitEngine
    /\ InitRest
    /\ \E sc \in Scenarios :
        /\ InitConfig(sc[1][1], sc[1][2], sc[1][3])
        /\ todo = sc[2]

(***************************************************************************)
(* load_audio and _load_worker                                             *)
(***************************************************************************)
LoadFails(ip, vo) ==
    \/ ~PathExists(ip) \/ ~PathExists(vo)
    \/ ip = FileCorrupt \/ vo = FileCorrupt

Snapshot == <<instrumental_audio_data, vocal_audio_data, sample_rate,
              duration, position, hp_frame, vp_frame, playing>>

\* the next scripted input is op, and the host is ready to handle it
Sleeping(t) == t.kind = "monitor" /\ t.pc = "m_check"
Quiet == /\ \A t \in Threads : Sleeping(t)
         /\ \A s \in StreamIds : streams[s].cb = "idle"
\* a burst input, and one that arrives just after a timer has expired or
\* while a restart is reopening, is handled before any other thread is
\* scheduled, unless the
\* host itself has to wait for a thread that holds _stream_lock
InBurst ==
    /\ ~stream_lock
    /\ \/ ctl.when \in {"burst", "late", "reopening"}
       \/ todo # <<>> /\ Head(todo).when = "burst"
\* a debounce timer has expired and its function has not run yet; nothing
\* else is going on
Fired(t) == t.kind = "timer" /\ t.pc = "t_perform"
JustFired == /\ \E t \in Threads : Fired(t)
             /\ \A t \in Threads : Sleeping(t) \/ Fired(t)
             /\ \A s \in StreamIds : streams[s].cb = "idle"
NextInput(op) ==
    /\ ctl.pc = "idle" /\ todo # <<>> /\ Head(todo).op = op
    /\ Head(todo).when = "settled" => Quiet
    /\ Head(todo).when = "late" => JustFired
    /\ Head(todo).when = "reopening" =>
          /\ \E t \in Threads : t.kind = "restart" /\ t.pc = "o_init"
          /\ \A t \in Threads : Sleeping(t) \/ t.kind = "restart"
          /\ \A s \in StreamIds : streams[s].cb = "idle"
\* what the host did: the handler, whether the engine was playing when it
\* started, and its argument
Done(item) == [op |-> item.op, was |-> playing, a |-> item.a]
Issued == /\ hist' = Append(hist, Done(Head(todo)))
          /\ todo' = Tail(todo)

\* the host's '-LOAD-' handler (enabled while can_load holds): load_audio(...)
\* starts the worker thread
HostLoad ==
    /\ NextInput("load")
    /\ ~playing /\ ~audio_loaded
    /\ thr' = Spawn(thr, [Dead EXCEPT !.kind = "load", !.pc = "l_rate",
                           !.ip = Head(todo).a, !.vo = Head(todo).b,
                           !.arg = Head(todo).c, !.snap = Snapshot])
    /\ ctl' = Call("tail", 0, <<>>, Head(todo).when)
    /\ Issued
    /\ UNCHANGED <<audio_loaded, sample_rate, playing, last_error, bufs,
                   cursors, refs, cfg, pend, locks, streams, window, emitted,
                   notes>>

\* _load_worker, lines 130-131
LoadSetRate(t) ==
    /\ t.kind = "load" /\ t.pc = "l_rate"
    /\ sample_rate' = t.arg
    /\ thr' = Step(thr, t, [t EXCEPT !.pc = "l_decode"])
    /\ UNCHANGED <<audio_loaded, playing, last_error, bufs, cursors, refs,
                   cfg, pend, locks, streams, ctl, window, emitted, notes,
                   script>>

\* _load_worker, lines 132-243 on success; lines 256-263 on failure
LoadDecode(t) ==
    /\ t.kind = "load" /\ t.pc = "l_decode"
    /\ IF LoadFails(t.ip, t.vo)
       THEN /\ thr' = Exit(thr, t)
            /\ emitted' = Bump("load_err")
            /\ window' = Append(window, "load_err")
       ELSE /\ thr' = Step(thr, t, [t EXCEPT !.pc = "l_swap",
                                              !.rate = sample_rate])
            /\ UNCHANGED <<emitted, window>>
    /\ UNCHANGED <<audio_loaded, sample_rate, playing, last_error, bufs,
                   cursors, refs, cfg, pend, locks, streams, ctl, notes, script>>

\* a duration taken from the shorter of the two buffers
LoadedDurationOfShortest(instBuf, vocBuf, sr) ==
    SecondsOfFrame(Min(BufLen(instBuf), BufLen(vocBuf)), sr)

\* duration = float(len(self.instrumental_audio_data)) / float(self.sample_rate)
LoadedDuration(instBuf, vocBuf, sr) == SecondsOfFrame(BufLen(instBuf), sr)

\* _load_worker, lines 245-251: the critical section that replaces the buffers
LoadSwap(t) ==
    /\ t.kind = "load" /\ t.pc = "l_swap"
    /\ ~stream_lock
    /\ instrumental_audio_data' = ArrayBuf(DecodeRows(t.ip, t.rate))
    /\ vocal_audio_data' = ArrayBuf(DecodeRows(t.vo, t.rate))
    /\ duration' = LoadedDuration(instrumental_audio_data', vocal_audio_data',
                                  sample_rate)
    /\ position' = 0
    /\ hp_frame' = 0
    /\ vp_frame' = 0
    /\ thr' = Step(thr, t, [t EXCEPT !.pc = "l_done"])
    /\ UNCHANGED <<audio_loaded, sample_rate, playing, last_error, refs, cfg,
                   pend, locks, streams, ctl, window, emitted, notes, script>>

\* _load_worker, lines 253-254
LoadDone(t) ==
    /\ t.kind = "load" /\ t.pc = "l_done"
    /\ audio_loaded' = TRUE
    /\ emitted' = Bump("load_ok")
    /\ window' = Append(window, "load_ok")
    /\ thr' = Exit(thr, t)
    /\ UNCHANGED <<sample_rate, playing, last_error, bufs, cursors, refs, cfg,
                   pend, locks, streams, ctl, notes, script>>

(***************************************************************************)
(* _close_streams, run by a worker thread (the async close thread, a       *)
(* restart worker or a monitor) or by the control thread                   *)
(***************************************************************************)
Referenced == {headphone_stream, virtual_stream} \ {NoStream}

\* stream.stop() returns only after a callback in progress has returned
CanStop == \A s \in Referenced : streams[s].cb = "idle"

\* a close that clears the playing flag only when it closed a stream
CloseEffectWhenOpen ==
    /\ CanStop
    /\ streams' = [s \in StreamIds |->
                     IF s \in Referenced THEN NoStreamObj ELSE streams[s]]
    /\ headphone_stream' = NoStream
    /\ virtual_stream' = NoStream
    /\ playing' = IF Referenced = {} THEN playing ELSE FALSE
    /\ stream_lock' = FALSE
    /\ UNCHANGED restart_lock

\* a close that returns without releasing _stream_lock
CloseEffectKeepsLock ==
    /\ CanStop
    /\ streams' = [s \in StreamIds |->
                     IF s \in Referenced THEN NoStreamObj ELSE streams[s]]
    /\ headphone_stream' = NoStream
    /\ virtual_stream' = NoStream
    /\ playing' = FALSE
    /\ stream_lock' = TRUE
    /\ UNCHANGED restart_lock

\* lines 342-357: the body of the critical section
CloseEffect ==
    /\ CanStop
    /\ streams' = [s \in StreamIds |->
                     IF s \in Referenced THEN NoStreamObj ELSE streams[s]]
    /\ headphone_stream' = NoStream
    /\ virtual_stream' = NoStream
    /\ playing' = FALSE
    /\ stream_lock' = FALSE
    /\ UNCHANGED restart_lock

Closer(t) == t.kind \in {"close", "restart", "monitor"}
AfterClose(T, t) == IF t.kind = "restart"
                    THEN Step(T, t, [t EXCEPT !.pc = "o_init"])
                    ELSE Exit(T, t)

\* line 341 when a callback of a stream to be stopped is still running: the
\* thread takes _stream_lock and blocks in stream.stop()
CloseLock(t) ==
    /\ Closer(t) /\ t.pc = "c_lock"
    /\ ~stream_lock /\ ~CanStop
    /\ stream_lock' = TRUE
    /\ thr' = Step(thr, t, [t EXCEPT !.pc = "c_body"])
    /\ UNCHANGED <<audio_loaded, sample_rate, playing, last_error, bufs,
                   cursors, refs, cfg, pend, restart_lock, streams, ctl,
                   window, emitted, notes, script>>

\* lines 341-357 when no callback is in the way
CloseNow(t) ==
    /\ Closer(t) /\ t.pc = "c_lock"
    /\ ~stream_lock
    /\ CloseEffect
    /\ thr' = AfterClose(thr, t)
    /\ UNCHANGED <<audio_loaded, sample_rate, last_error, bufs, cursors, cfg,
                   pend, ctl, window, emitted, notes, script>>

\* lines 342-357 once the callback has returned
CloseBody(t) ==
    /\ Closer(t) /\ t.pc = "c_body"
    /\ CloseEffect
    /\ thr' = AfterClose(thr, t)
    /\ UNCHANGED <<audio_loaded, sample_rate, last_error, bufs, cursors, cfg,
                   pend, ctl, window, emitted, notes, script>>

\* stop_immediate, lines 442-444, on the control thread
CtlCloseLock ==
    /\ ctl.pc = "c_lock"
    /\ ~stream_lock /\ ~CanStop
    /\ stream_lock' = TRUE
    /\ ctl' = [ctl EXCEPT !.pc = "c_body"]
    /\ UNCHANGED <<audio_loaded, sample_rate, playing, last_error, bufs,
                   cursors, refs, cfg, pend, restart_lock, streams, thr,
                   window, emitted, notes, script>>

\* a stop_immediate that also rewinds the track
CtlCloseNowRewinds ==
    /\ ctl.pc = "c_lock"
    /\ ~stream_lock
    /\ CloseEffect
    /\ position' = 0 /\ hp_frame' = 0 /\ vp_frame' = 0
    /\ ctl' = Return(ctl)
    /\ UNCHANGED <<audio_loaded, sample_rate, last_error, bufs, cfg,
                   pend, thr, window, emitted, notes, script>>

CtlCloseNow ==
    /\ ctl.pc = "c_lock"
    /\ ~stream_lock
    /\ CloseEffect
    /\ ctl' = Return(ctl)
    /\ UNCHANGED <<audio_loaded, sample_rate, last_error, bufs, cursors, cfg,
                   pend, thr, window, emitted, notes, script>>

CtlCloseBody ==
    /\ ctl.pc = "c_body"
    /\ CloseEffect
    /\ ctl' = Return(ctl)
    /\ UNCHANGED <<audio_loaded, sample_rate, last_error, bufs, cursors, cfg,
                   pend, thr, window, emitted, notes, script>>

(***************************************************************************)
(* _open_streams, run by play_pause's _start_bg thread or a restart worker *)
(***************************************************************************)
Opener(t) == t.kind \in {"start_bg", "restart"}

NewStream(kind) == [NoStreamObj EXCEPT !.kind = kind, !.active = TRUE]

\* the start frame: play_pause computed it (line 428) before the thread was
\* started; a restart computes it right before the call (line 409)
StartFrame(t) ==
    IF t.kind = "restart"
    THEN FrameOfSeconds(t.arg, sample_rate)
    ELSE t.frame

\* lines 360-364
OpenInit(t) ==
    /\ Opener(t) /\ t.pc = "o_init"
    /\ ~stream_lock
    /\ last_error' = <<>>
    /\ hp_frame' = StartFrame(t)
    /\ vp_frame' = StartFrame(t)
    /\ thr' = Step(thr, t, [t EXCEPT !.pc = "o_hp", !.frame = StartFrame(t),
                          !.started = FALSE])
    /\ UNCHANGED <<audio_loaded, sample_rate, playing, bufs, position, refs,
                   cfg, pend, locks, streams, ctl, window, emitted, notes,
                   script>>

\* a Broadcast stream wanted whenever a Broadcast device is set
WantsVirtualAlways == virtual_device_id # NoDev

\* the condition of line 380
WantsVirtual ==
    virtual_device_id # NoDev /\ virtual_device_id # headphone_device_id

AfterHeadphone == IF WantsVirtual THEN "o_vp" ELSE "o_ret"

\* lines 366-377, and line 380 when it is false
OpenHeadphone(t) ==
    /\ Opener(t) /\ t.pc = "o_hp"
    /\ IF headphone_device_id \in bad_devices
       THEN /\ last_error' = <<"hp">>
            /\ thr' = Step(thr, t, [t EXCEPT !.pc = AfterHeadphone])
            /\ UNCHANGED <<streams, headphone_stream>>
       ELSE /\ ~stream_lock
            /\ FreeStreams(streams) # {}
            /\ streams' = [streams EXCEPT ![LowestFreeStream(streams)] =
                              [NewStream("hp") EXCEPT !.first = TRUE,
                                                      !.init = t.frame]]
            /\ headphone_stream' = LowestFreeStream(streams)
            /\ thr' = Step(thr, t, [t EXCEPT !.pc = AfterHeadphone,
                                              !.started = TRUE])
            /\ UNCHANGED last_error
    /\ UNCHANGED <<audio_loaded, sample_rate, playing, bufs, cursors,
                   virtual_stream, cfg, pend, locks, ctl, window, emitted,
                   notes, script>>

\* lines 379-392
OpenVirtual(t) ==
    /\ Opener(t) /\ t.pc = "o_vp"
    /\ WantsVirtual
    /\ IF virtual_device_id \in bad_devices
       THEN /\ last_error' = Append(last_error, "vp")
            /\ thr' = Step(thr, t, [t EXCEPT !.pc = "o_ret"])
            /\ UNCHANGED <<streams, virtual_stream>>
       ELSE /\ ~stream_lock
            /\ FreeStreams(streams) # {}
            /\ streams' = [streams EXCEPT ![LowestFreeStream(streams)] =
                              [NewStream("vp") EXCEPT !.first = TRUE,
                                                      !.init = t.frame]]
            /\ virtual_stream' = LowestFreeStream(streams)
            /\ thr' = Step(thr, t, [t EXCEPT !.pc = "o_ret", !.started = TRUE])
            /\ UNCHANGED last_error
    /\ UNCHANGED <<audio_loaded, sample_rate, playing, bufs, cursors,
                   headphone_stream, cfg, pend, locks, ctl, window, emitted,
                   notes, script>>

MonitorThread == [Dead EXCEPT !.kind = "monitor", !.pc = "m_loop"]

\* an open that reports the failure of one of two devices to the host as a
\* '-PLAYBACK_ERROR-' event
OpenReturnTrueWarning(t) ==
    /\ Opener(t) /\ t.pc = "o_ret"
    /\ t.started
    /\ playing' = TRUE
    /\ session_ended' = 0
    /\ open_failed' = FALSE
    /\ emitted' = IF last_error = <<>> THEN emitted ELSE Bump("error")
    /\ last_error_event' = IF last_error = <<>> THEN last_error_event
                           ELSE last_error
    /\ thr' = Step(thr, t, IF t.kind = "start_bg" THEN MonitorThread
                            ELSE [t EXCEPT !.pc = "o_fin"])
    /\ UNCHANGED <<audio_loaded, sample_rate, last_error, bufs, cursors, refs,
                   cfg, pend, locks, streams, ctl, window, script>>

\* lines 394-399 when a stream was started: playing = True, return True; in
\* _start_bg the monitor thread is started next (line 437)
OpenReturnTrue(t) ==
    /\ Opener(t) /\ t.pc = "o_ret"
    /\ t.started
    /\ playing' = TRUE
    /\ session_ended' = 0
    /\ open_failed' = FALSE
    /\ thr' = Step(thr, t, IF t.kind = "start_bg" THEN MonitorThread
                            ELSE [t EXCEPT !.pc = "o_fin"])
    /\ UNCHANGED <<audio_loaded, sample_rate, last_error, bufs, cursors, refs,
                   cfg, pend, locks, streams, ctl, window, emitted,
                   last_error_event, script>>

\* lines 394-396 when no stream was started (return False), followed by the
\* caller's reaction: lines 433-435 in _start_bg, lines 416-419 in a restart
OpenReturnFalse(t) ==
    /\ Opener(t) /\ t.pc = "o_ret"
    /\ ~t.started
    /\ playing' = FALSE
    /\ emitted' = Bump("error")
    /\ last_error_event' = last_error
    /\ open_failed' = TRUE
    /\ restart_lock' = IF t.kind = "restart" THEN FALSE ELSE restart_lock
    /\ thr' = Exit(thr, t)
    /\ UNCHANGED <<audio_loaded, sample_rate, last_error, bufs, cursors, refs,
                   cfg, pend, stream_lock, streams, ctl, window,
                   session_ended, script>>

(***************************************************************************)
(* _restart_at_position_background                                         *)
(***************************************************************************)
\* a restart that does not wait for _restart_lock
RestartWithoutLock(t) ==
    /\ t.kind = "restart" /\ t.pc = "r_lock"
    /\ restart_lock' = TRUE
    /\ thr' = Step(thr, t, [Dead EXCEPT !.kind = "restart", !.pc = "c_lock",
                                        !.arg = t.arg])
    /\ UNCHANGED <<audio_loaded, sample_rate, playing, last_error, bufs,
                   cursors, refs, cfg, pend, stream_lock, streams, ctl,
                   window, emitted, notes, script>>

\* a restart that gives up when another restart holds _restart_lock
RestartGivesUp(t) ==
    /\ t.kind = "restart" /\ t.pc = "r_lock"
    /\ restart_lock' = TRUE
    /\ thr' = IF restart_lock
              THEN Exit(thr, t)
              ELSE Step(thr, t, [Dead EXCEPT !.kind = "restart",
                                             !.pc = "c_lock", !.arg = t.arg])
    /\ UNCHANGED <<audio_loaded, sample_rate, playing, last_error, bufs,
                   cursors, refs, cfg, pend, stream_lock, streams, ctl,
                   window, emitted, notes, script>>

\* line 406
RestartLock(t) ==
    /\ t.kind = "restart" /\ t.pc = "r_lock"
    /\ ~restart_lock
    /\ restart_lock' = TRUE
    /\ thr' = Step(thr, t, [Dead EXCEPT !.kind = "restart", !.pc = "c_lock",
                                        !.arg = t.arg])
    /\ UNCHANGED <<audio_loaded, sample_rate, playing, last_error, bufs,
                   cursors, refs, cfg, pend, stream_lock, streams, ctl,
                   window, emitted, notes, script>>

\* lines 411-414 and the release of _restart_lock
RestartFinish(t) ==
    /\ t.kind = "restart" /\ t.pc = "o_fin"
    /\ ~stream_lock
    /\ position' = SecondsOfFrame(t.frame, sample_rate)
    /\ restart_lock' = FALSE
    /\ thr' = Step(thr, t, MonitorThread)
    /\ UNCHANGED <<audio_loaded, sample_rate, playing, last_error, bufs,
                   hp_frame, vp_frame, refs, cfg, pend, stream_lock, streams,
                   ctl, window, emitted, notes, script>>

(***************************************************************************)
(* _playback_monitor                                                       *)
(***************************************************************************)
IsActive(ref) == ref # NoStream /\ streams[ref].active

\* lines 583-589: the loop test, the position update and the sleep
MonitorLoop(t) ==
    /\ t.kind = "monitor" /\ t.pc = "m_loop"
    /\ IF playing
       THEN /\ position' = SecondsOfFrame(hp_frame, sample_rate)
            /\ thr' = Step(thr, t, [t EXCEPT !.pc = "m_check"])
       ELSE /\ position' = position
            /\ thr' = Step(thr, t, [t EXCEPT !.pc = "m_break"])
    /\ UNCHANGED <<audio_loaded, sample_rate, playing, last_error, bufs,
                   hp_frame, vp_frame, refs, cfg, pend, locks, streams, ctl,
                   window, emitted, notes, script>>

\* lines 591-596
MonitorCheck(t) ==
    /\ t.kind = "monitor" /\ t.pc = "m_check"
    /\ ~stream_lock
    /\ thr' = Step(thr, t, [t EXCEPT !.pc =
                 IF ~IsActive(headphone_stream) /\ ~IsActive(virtual_stream)
                 THEN "m_break" ELSE "m_loop"])
    /\ UNCHANGED <<audio_loaded, sample_rate, playing, last_error, bufs,
                   cursors, refs, cfg, pend, locks, streams, ctl, window,
                   emitted, notes, script>>

\* a monitor that never reports the end of the track
MonitorBreakSilent(t) ==
    /\ t.kind = "monitor" /\ t.pc = "m_break"
    /\ thr' = Step(thr, t, [t EXCEPT !.pc = "c_lock"])
    /\ UNCHANGED <<audio_loaded, sample_rate, playing, last_error, bufs,
                   cursors, refs, cfg, pend, locks, streams, ctl, window,
                   emitted, notes, script>>

\* line 598: the test
MonitorBreak(t) ==
    /\ t.kind = "monitor" /\ t.pc = "m_break"
    /\ thr' = Step(thr, t, [t EXCEPT !.pc = IF playing THEN "m_emit"
                                             ELSE "c_lock"])
    /\ UNCHANGED <<audio_loaded, sample_rate, playing, last_error, bufs,
                   cursors, refs, cfg, pend, locks, streams, ctl, window,
                   emitted, notes, script>>

\* lines 599-600
MonitorEmit(t) ==
    /\ t.kind = "monitor" /\ t.pc = "m_emit"
    /\ playing' = FALSE
    /\ emitted' = Bump("ended")
    /\ window' = Append(window, "ended")
    /\ session_ended' = session_ended + 1
    /\ thr' = Step(thr, t, [t EXCEPT !.pc = "c_lock"])
    /\ UNCHANGED <<audio_loaded, sample_rate, last_error, bufs, cursors, refs,
                   cfg, pend, locks, streams, ctl, last_error_event,
                   open_failed, script>>

(***************************************************************************)
(* The realtime callbacks, run by the audio subsystem for an active stream *)
(***************************************************************************)
\* _hp_callback, lines 267-299: read the cursor and the buffers, mix, write
\* the block to outdata
HpCallbackBegin(s, frames) ==
    /\ streams[s].kind = "hp" /\ streams[s].active /\ streams[s].cb = "idle"
    /\ streams' = [streams EXCEPT ![s] =
          [@ EXCEPT !.cb = "run", !.start = hp_frame, !.n = frames,
                    !.out = HpMix(instrumental_audio_data, vocal_audio_data,
                                  hp_frame, frames, instrumental_volume,
                                  vocal_volume),
                    !.adv = ~(instrumental_audio_data.isNone
                              \/ vocal_audio_data.isNone),
                    !.stop = HpStops(instrumental_audio_data,
                                     vocal_audio_data, hp_frame)]]
    /\ UNCHANGED <<audio_loaded, sample_rate, playing, last_error, bufs,
                   cursors, refs, cfg, pend, locks, thr, ctl, window, emitted,
                   notes, script>>

\* _hp_callback, lines 300-303: advance the cursor, signal stop
HpCallbackEnd(s) ==
    /\ streams[s].kind = "hp" /\ streams[s].cb = "run"
    /\ hp_frame' = IF streams[s].adv THEN streams[s].start + streams[s].n
                   ELSE hp_frame
    /\ streams' = [streams EXCEPT ![s] =
                      [NewStream("hp") EXCEPT !.active = ~streams[s].stop]]
    /\ UNCHANGED <<audio_loaded, sample_rate, playing, last_error, bufs,
                   position, vp_frame, refs, cfg, pend, locks, thr, ctl,
                   window, emitted, notes, script>>

\* _vp_callback, lines 313-331
VpCallbackBegin(s, frames) ==
    /\ streams[s].kind = "vp" /\ streams[s].active /\ streams[s].cb = "idle"
    /\ streams' = [streams EXCEPT ![s] =
          [@ EXCEPT !.cb = "run", !.start = vp_frame, !.n = frames,
                    !.out = VpMix(instrumental_audio_data, vp_frame, frames,
                                  instrumental_volume),
                    !.adv = ~VpStops(instrumental_audio_data, vp_frame),
                    !.stop = VpStops(instrumental_audio_data, vp_frame)]]
    /\ UNCHANGED <<audio_loaded, sample_rate, playing, last_error, bufs,
                   cursors, refs, cfg, pend, locks, thr, ctl, window, emitted,
                   notes, script>>

\* _vp_callback, line 332, or the CallbackStop of lines 317 and 322
VpCallbackEnd(s) ==
    /\ streams[s].kind = "vp" /\ streams[s].cb = "run"
    /\ vp_frame' = IF streams[s].adv THEN streams[s].start + streams[s].n
                   ELSE vp_frame
    /\ streams' = [streams EXCEPT ![s] =
                      [NewStream("vp") EXCEPT !.active = ~streams[s].stop]]
    /\ UNCHANGED <<audio_loaded, sample_rate, playing, last_error, bufs,
                   position, hp_frame, refs, cfg, pend, locks, thr, ctl,
                   window, emitted, notes, script>>

(***************************************************************************)
(* The debounce timer: _schedule_seek_action and _perform_pending_seek     *)
(***************************************************************************)
TimersAlive(T) == {t \in BagToSet(T) : t.kind = "timer"}
\* the Timer object a reference denotes (a Timer is never created twice)
TimerOf(T, ref) == CHOOSE t \in TimersAlive(T) : t.id = ref
Armed(T, ref) == \E t \in TimersAlive(T) : t.id = ref /\ t.pc = "armed"

\* lines 453-461: Timer.cancel() stops a timer that has not fired yet and has
\* no effect on one whose function is already running
Cancelled(T, ref) == IF Armed(T, ref) THEN Exit(T, TimerOf(T, ref)) ELSE T

\* what the requests of the current debounce window were: how many, whether
\* all of them were forward_5sec() presses, or all of them seek() calls, made
\* with no other seek pending, where playback was at the first of them (the
\* position the Monitor cursor stands for and the position attribute), and
\* the argument of the last of them; gclean tells that no seek was pending and
\* no timer alive when the window began
WindowNote(T, ref, isForward) ==
    IF Armed(T, ref)
    THEN [gn |-> TimerOf(T, ref).gn + 1,
          gfwd |-> TimerOf(T, ref).gfwd /\ isForward,
          gabs |-> TimerOf(T, ref).gabs /\ ctl.pc = "seek",
          gclean |-> TimerOf(T, ref).gclean,
          glast |-> ctl.req,
          gpos |-> TimerOf(T, ref).gpos,
          gatt |-> TimerOf(T, ref).gatt]
    ELSE [gn |-> 1,
          gfwd |-> /\ isForward
                   /\ TimersAlive(T) = {}
                   /\ pending_seek_absolute = NoneT
                   /\ pending_seek_delta = 0,
          gabs |-> /\ ctl.pc = "seek"
                   /\ TimersAlive(T) = {}
                   /\ pending_seek_absolute = NoneT
                   /\ pending_seek_delta = 0,
          gclean |-> /\ TimersAlive(T) = {}
                     /\ pending_seek_absolute = NoneT
                     /\ pending_seek_delta = 0,
          glast |-> ctl.req,
          gpos |-> SecondsOfFrame(hp_frame, sample_rate),
          gatt |-> position]

\* lines 464-472: the new threading.Timer, started
ScheduleSeekAction(T, ref, isForward) ==
    LET note == WindowNote(T, ref, isForward)
    IN  Spawn(Cancelled(T, ref),
              [Dead EXCEPT !.kind = "timer", !.pc = "armed",
                           !.id = timers_made + 1, !.gn = note.gn,
                           !.gfwd = note.gfwd, !.gpos = note.gpos,
                           !.gatt = note.gatt, !.gabs = note.gabs,
                           !.glast = note.glast, !.gclean = note.gclean])

\* the debounce interval has elapsed and the timer was not cancelled
TimerFire(t) ==
    /\ t.kind = "timer" /\ t.pc = "armed"
    /\ thr' = Step(thr, t, [t EXCEPT !.pc = "t_perform"])
    /\ UNCHANGED <<audio_loaded, sample_rate, playing, last_error, bufs,
                   cursors, refs, cfg, pend, locks, streams, ctl, window,
                   emitted, notes, script>>

\* a target that is not clamped to the track
SeekTargetUnclamped(pabs, pdelta, cur_frame, sr, dur) ==
    IF pabs # NoneT THEN pabs ELSE SecondsOfFrame(cur_frame, sr) + pdelta

\* lines 494-510: the target of the restart
SeekTarget(pabs, pdelta, cur_frame, sr, dur) ==
    LET target == IF pabs # NoneT
                  THEN pabs
                  ELSE SecondsOfFrame(cur_frame, sr) + pdelta
    IN  ClampSeconds(target, dur)

\* threading.Thread(target=self._restart_at_position_background,
\* args=(target,)), lines 512-513; until it takes its first step the thread
\* also remembers the position of the Monitor cursor and the duration its
\* target was computed from, and the requests of its debounce window
RestartThread(t, target) ==
    [Dead EXCEPT !.kind = "restart", !.pc = "r_lock", !.arg = target,
                 !.id = t.id, !.gn = t.gn, !.gfwd = t.gfwd, !.gpos = t.gpos,
                 !.gatt = t.gatt, !.gabs = t.gabs, !.glast = t.glast,
                 !.gclean = t.gclean,
                 !.gdur = duration,
                 !.gcur = SecondsOfFrame(hp_frame, sample_rate)]

\* _perform_pending_seek, lines 481-491, when the relative target has to
\* wait for _stream_lock: the snapshot under _seek_lock only
PerformSnapshot(t) ==
    /\ t.kind = "timer" /\ t.pc = "t_perform"
    /\ pending_seek_absolute = NoneT /\ stream_lock
    /\ thr' = Step(thr, t, [t EXCEPT !.pc = "t_dispatch",
                                     !.pabs = pending_seek_absolute,
                                     !.pdelta = pending_seek_delta])
    /\ pending_seek_absolute' = NoneT
    /\ pending_seek_delta' = 0
    /\ seek_timer' = NoneT
    /\ UNCHANGED <<timers_made, audio_loaded, sample_rate, playing,
                   last_error, bufs, cursors, refs, cfg, locks, streams, ctl,
                   window, emitted, notes, script>>

\* _perform_pending_seek, lines 481-513: the snapshot, the target and the
\* start of the restart worker; the timer thread ends
PerformPendingSeek(t) ==
    /\ t.kind = "timer" /\ t.pc = "t_perform"
    /\ pending_seek_absolute = NoneT => ~stream_lock
    /\ LET target == SeekTarget(pending_seek_absolute, pending_seek_delta,
                                hp_frame, sample_rate, duration)
       IN  thr' = Step(thr, t, RestartThread(t, target))
    /\ pending_seek_absolute' = NoneT
    /\ pending_seek_delta' = 0
    /\ seek_timer' = NoneT
    /\ UNCHANGED <<timers_made, audio_loaded, sample_rate, playing,
                   last_error, bufs, cursors, refs, cfg, locks, streams, ctl,
                   window, emitted, last_error_event, session_ended,
                   open_failed, script>>

\* _perform_pending_seek, lines 498-513, after the wait for _stream_lock
PerformDispatch(t) ==
    /\ t.kind = "timer" /\ t.pc = "t_dispatch"
    /\ ~stream_lock
    /\ LET target == SeekTarget(t.pabs, t.pdelta, hp_frame, sample_rate,
                                duration)
       IN  thr' = Step(thr, t, RestartThread(t, target))
    /\ UNCHANGED <<audio_loaded, sample_rate, playing, last_error, bufs,
                   cursors, refs, cfg, pend, locks, streams, ctl, window,
                   emitted, last_error_event, session_ended, open_failed,
                   script>>

(***************************************************************************)
(* The control thread: the host's handlers and the engine methods they run *)
(***************************************************************************)
\* main.py, '-PLAY_PAUSE-'; play_pause, lines 422-439
HostPlayPause ==
    /\ NextInput("play_pause")
    /\ audio_loaded
    /\ IF playing
       THEN /\ thr' = Spawn(thr, [Dead EXCEPT !.kind = "close",
                                              !.pc = "c_lock"])
            /\ ctl' = Call("tail", 0, <<>>, Head(todo).when)
       ELSE /\ thr' = Spawn(thr, [Dead EXCEPT
                        !.kind = "start_bg", !.pc = "o_init",
                        !.frame = FrameOfSeconds(position, sample_rate)])
            /\ ctl' = Call("pp_set", 0, <<"tail">>, Head(todo).when)
    /\ Issued
    /\ UNCHANGED <<audio_loaded, sample_rate, playing, last_error, bufs,
                   cursors, refs, cfg, pend, locks, streams, window, emitted,
                   notes>>

\* play_pause, line 440
PlayPauseSetPlaying ==
    /\ ctl.pc = "pp_set"
    /\ playing' = TRUE
    /\ ctl' = Return(ctl)
    /\ UNCHANGED <<audio_loaded, sample_rate, last_error, bufs, cursors, refs,
                   cfg, pend, locks, streams, thr, window, emitted, notes,
                   script>>

\* main.py, '-STOP-': stop_immediate() followed by seek(0.0)
HostStop ==
    /\ NextInput("stop")
    /\ audio_loaded
    /\ ctl' = Call("c_lock", 0, <<"seek", "tail">>, Head(todo).when)
    /\ Issued
    /\ UNCHANGED <<audio_loaded, sample_rate, playing, last_error, bufs,
                   cursors, refs, cfg, pend, locks, streams, thr, window,
                   emitted, notes>>

\* main.py, handle_input_change (lines 439-441) after the user changed an
\* input of the load: mark_needs_reload, lines 89-99
HostInputChange ==
    /\ NextInput("change")
    /\ ~playing
    /\ IF audio_loaded
       THEN /\ thr' = Spawn(thr, [Dead EXCEPT !.kind = "close",
                                              !.pc = "c_lock"])
            /\ audio_loaded' = FALSE
            /\ window' = Append(window, "reload")
       ELSE UNCHANGED <<thr, audio_loaded, window>>
    /\ ctl' = Call("tail", 0, <<>>, Head(todo).when)
    /\ Issued
    /\ UNCHANGED <<sample_rate, playing, last_error, bufs, cursors, refs, cfg,
                   pend, locks, streams, emitted, notes>>

\* main.py, lines 1772-1777: the test that ends every iteration of the
\* host's event loop
HostTail ==
    /\ ctl.pc = "tail"
    /\ ctl' = IF playing /\ position >= duration
              THEN Call("c_lock", 0, <<"seek">>, ctl.when)
              ELSE IdleCtl
    /\ UNCHANGED <<audio_loaded, sample_rate, playing, last_error, bufs,
                   cursors, refs, cfg, pend, locks, streams, thr, window,
                   emitted, notes, script>>

\* main.py, line 1152: window.read(timeout=50) times out
HostTick ==
    /\ NextInput("tick")
    /\ ctl' = Call("tail", 0, <<>>, Head(todo).when)
    /\ Issued
    /\ UNCHANGED <<audio_loaded, sample_rate, playing, last_error, bufs,
                   cursors, refs, cfg, pend, locks, streams, thr, window,
                   emitted, notes>>

\* main.py: the host reads the next event the engine wrote: '-LOAD_DONE-'
\* (lines 1614-1632) or '-PLAYBACK_ENDED-' (lines 1751-1756)
HostReadEvent ==
    /\ NextInput("event")
    /\ window # <<>>
    /\ window' = Tail(window)
    /\ audio_loaded' = IF Head(window) = "load_err" THEN FALSE
                       ELSE audio_loaded
    /\ ctl' = IF Head(window) = "ended"
              THEN Call("c_lock", 0, <<"seek", "tail">>, Head(todo).when)
              ELSE Call("tail", 0, <<>>, Head(todo).when)
    /\ Issued
    /\ UNCHANGED <<sample_rate, playing, last_error, bufs, cursors, refs, cfg,
                   pend, locks, streams, thr, emitted, notes>>

\* main.py, the debounced '-PROGRESS-' slider: seek(pending_seek_value)
HostSeek ==
    /\ NextInput("seek")
    /\ audio_loaded
    /\ ctl' = Call("seek", Head(todo).a, <<"tail">>, Head(todo).when)
    /\ Issued
    /\ UNCHANGED <<audio_loaded, sample_rate, playing, last_error, bufs,
                   cursors, refs, cfg, pend, locks, streams, thr, window,
                   emitted, notes>>

\* a seek that does not replace an absolute target that is still pending
SeekKeepsFirst ==
    /\ ctl.pc = "seek"
    /\ LET seconds == ClampSeconds(ctl.arg, duration)
       IN  IF ~audio_loaded
           THEN /\ ctl' = Return(ctl)
                /\ UNCHANGED <<pend, thr>>
           ELSE IF ~playing
           THEN /\ ctl' = [ctl EXCEPT !.pc = "sk_write", !.arg = seconds]
                /\ UNCHANGED <<pend, thr>>
           ELSE /\ pending_seek_absolute' = IF pending_seek_absolute # NoneT
                                           THEN pending_seek_absolute
                                           ELSE seconds
                /\ pending_seek_delta' = 0
                /\ thr' = ScheduleSeekAction(thr, seek_timer, FALSE)
                /\ seek_timer' = timers_made + 1
                /\ timers_made' = timers_made + 1
                /\ ctl' = Return(ctl)
    /\ UNCHANGED <<audio_loaded, sample_rate, playing, last_error, bufs,
                   cursors, refs, cfg, locks, streams, window, emitted, notes,
                   script>>

\* a seek that leaves the accumulated delta in place
SeekKeepsDelta ==
    /\ ctl.pc = "seek"
    /\ LET seconds == ClampSeconds(ctl.arg, duration)
       IN  IF ~audio_loaded
           THEN /\ ctl' = Return(ctl)
                /\ UNCHANGED <<pend, thr>>
           ELSE IF ~playing
           THEN /\ ctl' = [ctl EXCEPT !.pc = "sk_write", !.arg = seconds]
                /\ UNCHANGED <<pend, thr>>
           ELSE /\ pending_seek_absolute' = seconds
                /\ pending_seek_delta' = pending_seek_delta
                /\ thr' = ScheduleSeekAction(thr, seek_timer, FALSE)
                /\ seek_timer' = timers_made + 1
                /\ timers_made' = timers_made + 1
                /\ ctl' = Return(ctl)
    /\ UNCHANGED <<audio_loaded, sample_rate, playing, last_error, bufs,
                   cursors, refs, cfg, locks, streams, window, emitted, notes,
                   script>>

\* seek, lines 520-524 and, while playing, lines 532-539
Seek ==
    /\ ctl.pc = "seek"
    /\ LET seconds == ClampSeconds(ctl.arg, duration)
       IN  IF ~audio_loaded
           THEN /\ ctl' = Return(ctl)
                /\ UNCHANGED <<pend, thr>>
           ELSE IF ~playing
           THEN /\ ctl' = [ctl EXCEPT !.pc = "sk_write", !.arg = seconds]
                /\ UNCHANGED <<pend, thr>>
           ELSE /\ pending_seek_absolute' = seconds
                /\ pending_seek_delta' = 0
                /\ thr' = ScheduleSeekAction(thr, seek_timer, FALSE)
                /\ seek_timer' = timers_made + 1
                /\ timers_made' = timers_made + 1
                /\ ctl' = Return(ctl)
    /\ UNCHANGED <<audio_loaded, sample_rate, playing, last_error, bufs,
                   cursors, refs, cfg, locks, streams, window, emitted, notes,
                   script>>

\* seek, lines 526-530: the paused path
SeekPaused ==
    /\ ctl.pc = "sk_write"
    /\ ~stream_lock
    /\ position' = ctl.arg
    /\ hp_frame' = FrameOfSeconds(ctl.arg, sample_rate)
    /\ vp_frame' = FrameOfSeconds(ctl.arg, sample_rate)
    /\ ctl' = Return(ctl)
    /\ UNCHANGED <<audio_loaded, sample_rate, playing, last_error, bufs, refs,
                   cfg, pend, locks, streams, thr, window, emitted, notes,
                   script>>

\* main.py, '-REWIND-' and '-FORWARD-': rewind_5sec(), forward_5sec()
HostRewind ==
    /\ NextInput("rewind")
    /\ audio_loaded
    /\ ctl' = Call("adjust", -SkipTicks, <<"tail">>, Head(todo).when)
    /\ Issued
    /\ UNCHANGED <<audio_loaded, sample_rate, playing, last_error, bufs,
                   cursors, refs, cfg, pend, locks, streams, thr, window,
                   emitted, notes>>

HostForward ==
    /\ NextInput("forward")
    /\ audio_loaded
    /\ ctl' = Call("adjust", SkipTicks, <<"tail">>, Head(todo).when)
    /\ Issued
    /\ UNCHANGED <<audio_loaded, sample_rate, playing, last_error, bufs,
                   cursors, refs, cfg, pend, locks, streams, thr, window,
                   emitted, notes>>

\* a pending delta that keeps only the last request
LastDeltaOnly(pabs, pdelta, pos, delta) == delta

\* lines 562-568: the pending delta after one more relative request
AccumulatedDelta(pabs, pdelta, pos, delta) ==
    (IF pabs # NoneT THEN pabs - pos ELSE pdelta) + delta

\* _adjust_pending_seek_delta, lines 546-551 and, while playing, 560-572
AdjustPendingSeekDelta ==
    /\ ctl.pc = "adjust"
    /\ IF ~audio_loaded
       THEN /\ ctl' = Return(ctl)
            /\ UNCHANGED <<pend, thr>>
       ELSE IF ~playing
       THEN /\ ctl' = [ctl EXCEPT
                         !.pc = "adj_write",
                         !.arg = ClampSeconds(position + ctl.arg, duration)]
            /\ UNCHANGED <<pend, thr>>
       ELSE /\ pending_seek_absolute' = NoneT
            /\ pending_seek_delta' =
                  AccumulatedDelta(pending_seek_absolute, pending_seek_delta,
                                   position, ctl.arg)
            /\ thr' = ScheduleSeekAction(thr, seek_timer, ctl.arg > 0)
            /\ seek_timer' = timers_made + 1
            /\ timers_made' = timers_made + 1
            /\ ctl' = Return(ctl)
    /\ UNCHANGED <<audio_loaded, sample_rate, playing, last_error, bufs,
                   cursors, refs, cfg, locks, streams, window, emitted, notes,
                   script>>

\* _adjust_pending_seek_delta, lines 552-558: the paused path
AdjustPaused ==
    /\ ctl.pc = "adj_write"
    /\ ~stream_lock
    /\ position' = ctl.arg
    /\ hp_frame' = FrameOfSeconds(ctl.arg, sample_rate)
    /\ vp_frame' = FrameOfSeconds(ctl.arg, sample_rate)
    /\ ctl' = Return(ctl)
    /\ UNCHANGED <<audio_loaded, sample_rate, playing, last_error, bufs, refs,
                   cfg, pend, locks, streams, thr, window, emitted, notes,
                   script>>

(***************************************************************************)
(* Specifications                                                          *)
(***************************************************************************)
\* the threads and the streams the scheduler may run next
Runnable == IF InBurst THEN {} ELSE Threads
Audible == IF InBurst THEN {} ELSE StreamIds

Workers ==
    \/ \E t \in Runnable : LoadSetRate(t)
    \/ \E t \in Runnable : LoadDecode(t)
    \/ \E t \in Runnable : LoadSwap(t)
    \/ \E t \in Runnable : LoadDone(t)
    \/ \E t \in Runnable : CloseLock(t)
    \/ \E t \in Runnable : CloseNow(t)
    \/ \E t \in Runnable : CloseBody(t)
    \/ \E t \in Runnable : OpenInit(t)
    \/ \E t \in Runnable : OpenHeadphone(t)
    \/ \E t \in Runnable : OpenVirtual(t)
    \/ \E t \in Runnable : OpenReturnTrue(t)
    \/ \E t \in Runnable : OpenReturnFalse(t)
    \/ \E t \in Runnable : RestartLock(t)
    \/ \E t \in Runnable : RestartFinish(t)
    \/ \E t \in Runnable : MonitorLoop(t)
    \/ \E t \in Runnable : MonitorCheck(t)
    \/ \E t \in Runnable : MonitorBreak(t)
    \/ \E t \in Runnable : MonitorEmit(t)
    \/ \E t \in Runnable : TimerFire(t)
    \/ \E t \in Runnable : PerformSnapshot(t)
    \/ \E t \in Runnable : PerformPendingSeek(t)
    \/ \E t \in Runnable : PerformDispatch(t)

Callbacks ==
    \/ \E s \in Audible : HpCallbackBegin(s, BlockFrames)
    \/ \E s \in Audible : HpCallbackEnd(s)
    \/ \E s \in Audible : VpCallbackBegin(s, BlockFrames)
    \/ \E s \in Audible : VpCallbackEnd(s)

Control ==
    \/ CtlCloseLock \/ CtlCloseNow \/ CtlCloseBody \/ PlayPauseSetPlaying
    \/ Seek \/ SeekPaused \/ AdjustPendingSeekDelta \/ AdjustPaused

Host ==
    \/ HostLoad \/ HostPlayPause \/ HostStop \/ HostTick \/ HostReadEvent
    \/ HostSeek \/ HostRewind \/ HostForward \/ HostInputChange \/ HostTail

Next == Workers \/ Callbacks \/ Control \/ Host

Spec == Init /\ [][Next]_vars

(***************************************************************************)
(* The Monitor callback on its own: the engine playing on one device with  *)
(* any two files loaded, the cursor anywhere on the track (a paused seek   *)
(* followed by play_pause) and the volume sliders anywhere; the audio      *)
(* subsystem asks for blocks of any size up to MixFrames.                  *)
(***************************************************************************)
MixVolumes == {0, InitInstVolume, InitVocalVolume, SliderMax}
MixFiles == {FileLong, FileShort}
SleepingMonitor == [MonitorThread EXCEPT !.pc = "m_check"]

InitMix ==
    /\ \E ip \in MixFiles, vo \in MixFiles :
        /\ instrumental_audio_data = ArrayBuf(DecodeRows(ip, LowRate))
        /\ vocal_audio_data = ArrayBuf(DecodeRows(vo, LowRate))
        /\ duration = LoadedDuration(instrumental_audio_data,
                                     vocal_audio_data, LowRate)
        /\ hp_frame \in 0..(Max(FileSeconds(ip), FileSeconds(vo)) + 1)
        /\ hist = <<[op |-> "load", was |-> FALSE, a |-> ip],
                    [op |-> "play_pause", was |-> FALSE, a |-> 0]>>
    /\ vp_frame = hp_frame
    /\ position = SecondsOfFrame(hp_frame, LowRate)
    /\ instrumental_volume \in MixVolumes
    /\ vocal_volume \in MixVolumes
    /\ audio_loaded = TRUE
    /\ sample_rate = LowRate
    /\ playing = TRUE
    /\ headphone_device_id = 1
    /\ virtual_device_id = NoDev
    /\ bad_devices = {}
    /\ headphone_stream = 1
    /\ virtual_stream = NoStream
    /\ streams = [s \in StreamIds |->
                    IF s = 1 THEN NewStream("hp") ELSE NoStreamObj]
    /\ thr = SetToBag({SleepingMonitor})
    /\ last_error = <<>>
    /\ pending_seek_absolute = NoneT
    /\ pending_seek_delta = 0
    /\ seek_timer = NoneT
    /\ timers_made = 0
    /\ stream_lock = FALSE
    /\ restart_lock = FALSE
    /\ ctl = IdleCtl
    /\ window = <<"load_ok">>
    /\ emitted = [NoEvents EXCEPT !.load_ok = 1]
    /\ last_error_event = <<>>
    /\ session_ended = 0
    /\ open_failed = FALSE
    /\ todo = <<>>

NextMix ==
    \/ \E s \in StreamIds, n \in 1..MixFrames : HpCallbackBegin(s, n)
    \/ \E s \in StreamIds : HpCallbackEnd(s)

SpecMix == InitMix /\ [][NextMix]_vars

(***************************************************************************)
(* Both callbacks on their own: the engine right after play_pause() opened *)
(* the Monitor and the Broadcast stream at the start of the track, with    *)
(* any two files loaded and the volume sliders anywhere; the audio         *)
(* subsystem runs the two callbacks independently of each other.           *)
(***************************************************************************)
InitBroadcast ==
    /\ \E ip \in MixFiles, vo \in MixFiles :
        /\ instrumental_audio_data = ArrayBuf(DecodeRows(ip, LowRate))
        /\ vocal_audio_data = ArrayBuf(DecodeRows(vo, LowRate))
        /\ duration = LoadedDuration(instrumental_audio_data,
                                     vocal_audio_data, LowRate)
        /\ hist = <<[op |-> "load", was |-> FALSE, a |-> ip],
                    [op |-> "play_pause", was |-> FALSE, a |-> 0]>>
    /\ hp_frame = 0
    /\ vp_frame = 0
    /\ position = 0
    /\ instrumental_volume \in MixVolumes
    /\ vocal_volume \in {0, InitVocalVolume}
    /\ audio_loaded = TRUE
    /\ sample_rate = LowRate
    /\ playing = TRUE
    /\ headphone_device_id = 1
    /\ virtual_device_id = 2
    /\ bad_devices = {}
    /\ headphone_stream = 1
    /\ virtual_stream = 2
    /\ streams = [s \in StreamIds |->
                    IF s = 1 THEN NewStream("hp")
                    ELSE IF s = 2 THEN NewStream("vp") ELSE NoStreamObj]
    /\ thr = SetToBag({SleepingMonitor})
    /\ last_error = <<>>
    /\ pending_seek_absolute = NoneT
    /\ pending_seek_delta = 0
    /\ seek_timer = NoneT
    /\ timers_made = 0
    /\ stream_lock = FALSE
    /\ restart_lock = FALSE
    /\ ctl = IdleCtl
    /\ window = <<"load_ok">>
    /\ emitted = [NoEvents EXCEPT !.load_ok = 1]
    /\ last_error_event = <<>>
    /\ session_ended = 0
    /\ open_failed = FALSE
    /\ todo = <<>>

NextBroadcast ==
    \/ \E s \in StreamIds, n \in 1..MixFrames : HpCallbackBegin(s, n)
    \/ \E s \in StreamIds : HpCallbackEnd(s)
    \/ \E s \in StreamIds, n \in 1..MixFrames : VpCallbackBegin(s, n)
    \/ \E s \in StreamIds : VpCallbackEnd(s)

SpecBroadcast == InitBroadcast /\ [][NextBroadcast]_vars

(***************************************************************************)
(* Two restarts that overlap: the state of the LateForward scenario in     *)
(* which the function of the replaced timer 1 has started a restart that   *)
(* holds _restart_lock and is about to close the streams, and the function *)
(* of timer 2 has started a second restart, which waits for the lock.  The *)
(* first callback of the playing stream has or has not run.  From there on *)
(* the operating system schedules the threads and the audio subsystem the  *)
(* callbacks: a thread that can take a step is not held back forever, a    *)
(* time.sleep() returns, and a callback in progress returns.               *)
(***************************************************************************)
InitRestart ==
    /\ instrumental_audio_data = ArrayBuf(DecodeRows(FileShort, LowRate))
    /\ vocal_audio_data = ArrayBuf(DecodeRows(FileShort, LowRate))
    /\ duration = LoadedDuration(instrumental_audio_data, vocal_audio_data,
                                 LowRate)
    /\ sample_rate = LowRate
    /\ hp_frame \in {0, BlockFrames}
    /\ vp_frame = 0
    /\ position = 0
    /\ restart_lock = TRUE
    /\ thr = SetToBag({SleepingMonitor,
                       [Dead EXCEPT !.kind = "restart", !.pc = "c_lock",
                                    !.arg = duration],
                       RestartThread([Dead EXCEPT !.id = 2, !.gn = 1,
                                                  !.glast = SkipTicks],
                                     SeekTarget(NoneT, 0, hp_frame,
                                                sample_rate, duration))})
    /\ hist = <<[op |-> "load", was |-> FALSE, a |-> FileShort],
                [op |-> "play_pause", was |-> FALSE, a |-> 0],
                [op |-> "forward", was |-> TRUE, a |-> 0],
                [op |-> "forward", was |-> TRUE, a |-> 0]>>
    /\ InitConfig(1, NoDev, {})
    /\ audio_loaded = TRUE
    /\ playing = TRUE
    /\ headphone_stream = 1
    /\ virtual_stream = NoStream
    /\ streams = [s \in StreamIds |->
                    IF s = 1 THEN NewStream("hp") ELSE NoStreamObj]
    /\ last_error = <<>>
    /\ pending_seek_absolute = NoneT
    /\ pending_seek_delta = 0
    /\ seek_timer = NoneT
    /\ timers_made = 2
    /\ stream_lock = FALSE
    /\ ctl = IdleCtl
    /\ window = <<"load_ok">>
    /\ emitted = [NoEvents EXCEPT !.load_ok = 1]
    /\ last_error_event = <<>>
    /\ session_ended = 0
    /\ open_failed = FALSE
    /\ todo = <<>>

NextRestart ==
    \/ \E t \in Threads : RestartLock(t)
    \/ \E t \in Threads : CloseLock(t)
    \/ \E t \in Threads : CloseNow(t)
    \/ \E t \in Threads : CloseBody(t)
    \/ \E t \in Threads : OpenInit(t)
    \/ \E t \in Threads : OpenHeadphone(t)
    \/ \E t \in Threads : OpenReturnTrue(t)
    \/ \E t \in Threads : RestartFinish(t)
    \/ \E t \in Threads : MonitorLoop(t)
    \/ \E t \in Threads : MonitorCheck(t)
    \/ \E t \in Threads : MonitorBreak(t)
    \/ \E t \in Threads : MonitorEmit(t)
    \/ \E s \in StreamIds : HpCallbackBegin(s, BlockFrames)
    \/ \E s \in StreamIds : HpCallbackEnd(s)

Scheduling ==
    /\ WF_vars(\E t \in Threads : RestartLock(t))
    /\ WF_vars(\E t \in Threads : CloseLock(t))
    /\ WF_vars(\E t \in Threads : CloseNow(t))
    /\ WF_vars(\E t \in Threads : CloseBody(t))
    /\ WF_vars(\E t \in Threads : OpenInit(t))
    /\ WF_vars(\E t \in Threads : OpenHeadphone(t))
    /\ WF_vars(\E t \in Threads : OpenReturnTrue(t))
    /\ WF_vars(\E t \in Threads : RestartFinish(t))
    /\ WF_vars(\E t \in Threads : MonitorLoop(t))
    /\ WF_vars(\E t \in Threads : MonitorCheck(t))
    /\ WF_vars(\E t \in Threads : MonitorBreak(t))
    /\ WF_vars(\E t \in Threads : MonitorEmit(t))
    /\ WF_vars(\E s \in StreamIds : HpCallbackBegin(s, BlockFrames))
    /\ WF_vars(\E s \in StreamIds : HpCallbackEnd(s))

SpecRestart == InitRestart /\ [][NextRestart]_vars /\ Scheduling

(***************************************************************************)
(* Whole sessions on one device under fair scheduling: the user loads two  *)
(* files and plays them, and then does nothing more, or skips forward and  *)
(* presses the stop button right after, or moves the slider while the      *)
(* restart of the skip is under way.  The                                  *)
(* operating system does not hold back forever a thread that can take a    *)
(* step, a time.sleep() and a debounce interval end, the audio subsystem   *)
(* keeps calling the callback of an active stream, a callback returns, and *)
(* the host's event loop handles the input that is due.                    *)
(***************************************************************************)
InitSession ==
    /\ InitEngine
    /\ InitRest
    /\ InitConfig(OneDevice[1], OneDevice[2], OneDevice[3])
    /\ todo \in {PlayOnly, SkipThenStop, SeekDuringRestart}

NextSession ==
    \/ \E t \in Runnable : LoadSetRate(t)
    \/ \E t \in Runnable : LoadDecode(t)
    \/ \E t \in Runnable : LoadSwap(t)
    \/ \E t \in Runnable : LoadDone(t)
    \/ \E t \in Runnable : CloseLock(t)
    \/ \E t \in Runnable : CloseNow(t)
    \/ \E t \in Runnable : CloseBody(t)
    \/ \E t \in Runnable : OpenInit(t)
    \/ \E t \in Runnable : OpenHeadphone(t)
    \/ \E t \in Runnable : OpenReturnTrue(t)
    \/ \E t \in Runnable : RestartLock(t)
    \/ \E t \in Runnable : RestartFinish(t)
    \/ \E t \in Runnable : MonitorLoop(t)
    \/ \E t \in Runnable : MonitorCheck(t)
    \/ \E t \in Runnable : MonitorBreak(t)
    \/ \E t \in Runnable : MonitorEmit(t)
    \/ \E t \in Runnable : TimerFire(t)
    \/ \E t \in Runnable : PerformSnapshot(t)
    \/ \E t \in Runnable : PerformPendingSeek(t)
    \/ \E t \in Runnable : PerformDispatch(t)
    \/ \E s \in Audible : HpCallbackBegin(s, BlockFrames)
    \/ \E s \in Audible : HpCallbackEnd(s)
    \/ CtlCloseLock
    \/ CtlCloseNow
    \/ CtlCloseBody
    \/ PlayPauseSetPlaying
    \/ Seek
    \/ SeekPaused
    \/ AdjustPendingSeekDelta
    \/ AdjustPaused
    \/ HostTail
    \/ HostLoad
    \/ HostPlayPause
    \/ HostStop
    \/ HostSeek
    \/ HostForward

FairScheduling ==
    /\ WF_vars(\E t \in Runnable : LoadSetRate(t))
    /\ WF_vars(\E t \in Runnable : LoadDecode(t))
    /\ WF_vars(\E t \in Runnable : LoadSwap(t))
    /\ WF_vars(\E t \in Runnable : LoadDone(t))
    /\ WF_vars(\E t \in Runnable : CloseLock(t))
    /\ WF_vars(\E t \in Runnable : CloseNow(t))
    /\ WF_vars(\E t \in Runnable : CloseBody(t))
    /\ WF_vars(\E t \in Runnable : OpenInit(t))
    /\ WF_vars(\E t \in Runnable : OpenHeadphone(t))
    /\ WF_vars(\E t \in Runnable : OpenReturnTrue(t))
    /\ WF_vars(\E t \in Runnable : RestartLock(t))
    /\ WF_vars(\E t \in Runnable : RestartFinish(t))
    /\ WF_vars(\E t \in Runnable : MonitorLoop(t))
    /\ WF_vars(\E t \in Runnable : MonitorCheck(t))
    /\ WF_vars(\E t \in Runnable : MonitorBreak(t))
    /\ WF_vars(\E t \in Runnable : MonitorEmit(t))
    /\ WF_vars(\E t \in Runnable : TimerFire(t))
    /\ WF_vars(\E t \in Runnable : PerformSnapshot(t))
    /\ WF_vars(\E t \in Runnable : PerformPendingSeek(t))
    /\ WF_vars(\E t \in Runnable : PerformDispatch(t))
    /\ WF_vars(\E s \in Audible : HpCallbackBegin(s, BlockFrames))
    /\ WF_vars(\E s \in Audible : HpCallbackEnd(s))
    /\ WF_vars(CtlCloseLock)
    /\ WF_vars(CtlCloseNow)
    /\ WF_vars(CtlCloseBody)
    /\ WF_vars(PlayPauseSetPlaying)
    /\ WF_vars(Seek)
    /\ WF_vars(SeekPaused)
    /\ WF_vars(AdjustPendingSeekDelta)
    /\ WF_vars(AdjustPaused)
    /\ WF_vars(HostTail)
    /\ WF_vars(HostLoad)
    /\ WF_vars(HostPlayPause)
    /\ WF_vars(HostStop)
    /\ WF_vars(HostSeek)
    /\ WF_vars(HostForward)

SpecSession == InitSession /\ [][NextSession]_vars /\ FairScheduling

(***************************************************************************)
(* One song played to its end: the host loads a song and calls             *)
(* play_pause() once, and after that only its event loop runs.  The steps  *)
(* are those of load(), play_pause(), _open_streams(), the callbacks, the  *)
(* monitor loop and the host's stop_immediate() and seek(0.0) at the end   *)
(* of the track, scheduled as in SpecSession.                              *)
(***************************************************************************)
InitPlay ==
    /\ InitEngine
    /\ InitRest
    /\ InitConfig(OneDevice[1], OneDevice[2], OneDevice[3])
    /\ todo \in {PlayOnly, PlayHighRate}

NextPlay ==
    \/ \E t \in Runnable : LoadSetRate(t)
    \/ \E t \in Runnable : LoadDecode(t)
    \/ \E t \in Runnable : LoadSwap(t)
    \/ \E t \in Runnable : LoadDone(t)
    \/ \E t \in Runnable : CloseNow(t)
    \/ \E t \in Runnable : OpenInit(t)
    \/ \E t \in Runnable : OpenHeadphone(t)
    \/ \E t \in Runnable : OpenReturnTrue(t)
    \/ \E t \in Runnable : MonitorLoop(t)
    \/ \E t \in Runnable : MonitorCheck(t)
    \/ \E t \in Runnable : MonitorBreak(t)
    \/ \E t \in Runnable : MonitorEmit(t)
    \/ \E s \in Audible : HpCallbackBegin(s, BlockFrames)
    \/ \E s \in Audible : HpCallbackEnd(s)
    \/ CtlCloseLock
    \/ CtlCloseNow
    \/ CtlCloseBody
    \/ PlayPauseSetPlaying
    \/ Seek
    \/ SeekPaused
    \/ HostTail
    \/ HostLoad
    \/ HostPlayPause

SpecPlay == InitPlay /\ [][NextPlay]_vars /\ FairScheduling

(***************************************************************************)
(* Properties                                                              *)
(***************************************************************************)
\* restart workers that have not taken a step yet
FreshRestarts == {t \in Threads : t.kind = "restart" /\ t.pc = "r_lock"}
\* the debounce window held three forward_5sec() presses and nothing else
BurstOfThree(t) == t.gn = 3 /\ t.gfwd
\* the thread takes a step or ends
Leaves(t) == CopiesIn(t, thr') < CopiesIn(t, thr)
StreamOpen == headphone_stream # NoStream \/ virtual_stream # NoStream
\* the host has handled every input and every thread has finished or sleeps
AtRest == ctl.pc = "idle" /\ todo = <<>> /\ Quiet
\* playback has not reached the end of the track, and a monitor thread that
\* wakes up finds an active stream and goes back to sleep
TrackRunning ==
    /\ emitted.ended = 0
    /\ SecondsOfFrame(hp_frame, sample_rate) < duration
    /\ Threads # {} => IsActive(headphone_stream) \/ IsActive(virtual_stream)
\* inst[i] and voc[i] of the mixing formula: 0 beyond the end of the buffer
SampleAt(buf, i, ch) == IF i <= BufLen(buf) THEN buf.rows[i][ch] ELSE 0

\* C1 (as the code has it): three forward_5sec() presses made while playing,
\* all before the debounce timer of the first expires, leave one pending
\* timer, the one of the third press, and the restart it starts gets the
\* target min(duration, p + 15 s), where p is the position of the Monitor
\* cursor when the timer expires.
C1_BurstRestart ==
    /\ \A t \in TimersAlive(thr) :
          BurstOfThree(t) => \A u \in TimersAlive(thr) : u.id >= t.id
    /\ \A r \in FreshRestarts :
          BurstOfThree(r) =>
              /\ r.arg = Min(r.gdur, r.gcur + 3 * SkipTicks)
              /\ \A u \in TimersAlive(thr) : u.id > r.id

\* C1, witness: a restart started for three presses, its target 15 s past
\* the cursor and before the end of the track, no timer left.
C1_Witness ==
    \E r \in FreshRestarts :
        /\ BurstOfThree(r)
        /\ r.gcur + 3 * SkipTicks < r.gdur
        /\ r.arg = r.gcur + 3 * SkipTicks
        /\ TimersAlive(thr) = {}

\* C1 as claimed: the target of the restart started for three presses is
\* min(duration, original_position + 15 s), where original_position is the
\* playback position at which the presses were made, read either as the
\* position of the Monitor cursor or as the position attribute.
C1_OriginalTarget ==
    \A r \in FreshRestarts :
        BurstOfThree(r) =>
            \/ r.arg = Min(r.gdur, r.gpos + 3 * SkipTicks)
            \/ r.arg = Min(r.gdur, r.gatt + 3 * SkipTicks)

\* C2 as claimed: once the host and all threads are at rest after two
\* successive play_pause() calls, on a track that has not ended, the engine
\* is in the playback state it had before the first of the two: playing with
\* a stream open, or not playing with no stream open.
C2_TogglePairRestores ==
    (/\ AtRest /\ TrackRunning
     /\ Len(hist) >= 3
     /\ hist[Len(hist)].op = "play_pause"
     /\ hist[Len(hist) - 1].op = "play_pause")
    => /\ playing = hist[Len(hist) - 1].was
       /\ StreamOpen = hist[Len(hist) - 1].was

\* C3 as claimed: after the streams were opened, '-PLAYBACK_ENDED-' is
\* written at most once, however many monitor threads are alive.
C3_EndedOnce == session_ended <= 1

\* C4: with audio loaded and playing False, seek(seconds) arms no timer and
\* starts no thread, sets position to max(0, min(seconds, duration)) and sets
\* both cursors to int(position * sample_rate).
C4_PausedSeek ==
    [][/\ (ctl.pc = "seek" /\ ctl' # ctl /\ audio_loaded /\ ~playing)
            => (ctl'.pc = "sk_write" /\ UNCHANGED <<pend, thr, cursors>>)
       /\ (ctl.pc = "sk_write" /\ ctl' # ctl)
            => /\ position' = Max(0, Min(ctl.req, duration))
               /\ hp_frame' = IntTrunc(position' * sample_rate,
                                       TicksPerSecond)
               /\ vp_frame' = hp_frame'
               /\ UNCHANGED <<pend, thr>>]_vars

\* C4, witness: a seek beyond the end of the track, made while paused, has
\* returned with the position and both cursors at the end of the track.
C4_Witness ==
    /\ ctl.pc = "tail" /\ hist # <<>>
    /\ hist[Len(hist)].op = "seek" /\ ~hist[Len(hist)].was
    /\ hist[Len(hist)].a > duration
    /\ audio_loaded /\ duration > 0
    /\ position = duration
    /\ hp_frame = FrameOfSeconds(duration, sample_rate)
    /\ vp_frame = hp_frame
    /\ timers_made = 0

\* C5: every target handed to _restart_at_position_background lies in
\* [0, duration].
C5_TargetsInRange ==
    \A r \in FreshRestarts : 0 <= r.arg /\ r.arg <= r.gdur

\* C5, witness: a restart whose accumulated target ran past the end of the
\* track and was clamped to the duration.
C5_Witness ==
    \E r \in FreshRestarts :
        /\ BurstOfThree(r)
        /\ r.gcur + 3 * SkipTicks > r.gdur
        /\ r.arg = r.gdur

\* C6 as claimed: when a load fails, the buffers, sample_rate, duration,
\* position, both cursors and the playing flag are what they were when
\* load_audio() was called, and one '-LOAD_DONE-' error event is written.
C6_FailedLoadKeepsState ==
    [][\A t \in Threads :
          (/\ t.kind = "load" /\ t.pc = "l_decode"
           /\ LoadFails(t.ip, t.vo) /\ Leaves(t))
          => /\ Snapshot' = t.snap
             /\ emitted'.load_err = emitted.load_err + 1]_vars

\* C7: a successful load replaces both buffers and the duration in one step
\* taken with _stream_lock free, with duration = len(instrumental) /
\* sample_rate and position and both cursors 0, and leaves audio_loaded as
\* it was; audio_loaded becomes True only in the later step of the load
\* worker, with all of that still in place.
C7_SuccessfulLoad ==
    [][/\ (bufs' # bufs)
            => /\ ~stream_lock /\ ~stream_lock'
               /\ ~instrumental_audio_data'.isNone
               /\ ~vocal_audio_data'.isNone
               /\ duration' * sample_rate' =
                     BufLen(instrumental_audio_data') * TicksPerSecond
               /\ position' = 0 /\ hp_frame' = 0 /\ vp_frame' = 0
               /\ audio_loaded' = audio_loaded
       /\ (audio_loaded' /\ ~audio_loaded)
            => /\ \E t \in Threads : t.kind = "load" /\ t.pc = "l_done"
               /\ UNCHANGED <<bufs, cursors>>
               /\ duration * sample_rate =
                     BufLen(instrumental_audio_data) * TicksPerSecond
               /\ position = 0 /\ hp_frame = 0 /\ vp_frame = 0]_vars

\* C7, witness: a load at the high sample rate of an instrumental and a vocal
\* of different lengths has completed.
C7_Witness ==
    /\ audio_loaded /\ sample_rate = HighRate
    /\ BufLen(instrumental_audio_data) # BufLen(vocal_audio_data)
    /\ duration * sample_rate =
          BufLen(instrumental_audio_data) * TicksPerSecond
    /\ duration > 0 /\ position = 0 /\ hp_frame = 0 /\ vp_frame = 0

\* the open has started the Monitor stream and failed to start the Broadcast
\* stream on its own device
PartialOpen(t) ==
    /\ Opener(t) /\ t.pc = "o_ret" /\ t.started
    /\ WantsVirtual
    /\ headphone_stream # NoStream /\ virtual_stream = NoStream

\* C8 (as the code has it): when the Monitor stream opens and the Broadcast
\* stream fails to open, the open succeeds: playing is True, the Monitor
\* stream stays open, play_pause() starts the monitor thread, the Broadcast
\* error text is kept in last_error, and no event is written to the host.
\* As long as the Monitor device works no '-PLAYBACK_ERROR-' event is written.
C8_PartialFailure ==
    /\ [](headphone_device_id \notin bad_devices => emitted.error = 0)
    /\ [][\A t \in Threads :
             (PartialOpen(t) /\ Leaves(t))
             => /\ playing'
                /\ headphone_stream' = headphone_stream
                /\ streams'[headphone_stream'].kind = "hp"
                /\ last_error' = <<"vp">>
                /\ emitted' = emitted /\ window' = window
                /\ t.kind = "start_bg"
                      => CopiesIn(MonitorThread, thr') >
                            CopiesIn(MonitorThread, thr)]_vars

\* C8, witness: playback runs on the Monitor stream alone after the Broadcast
\* device failed, with the error text recorded and no error event written.
C8_Witness ==
    /\ playing /\ IsActive(headphone_stream) /\ virtual_stream = NoStream
    /\ WantsVirtual /\ last_error = <<"vp">>
    /\ emitted.error = 0
    /\ \E t \in Threads : t.kind = "monitor"

\* C8 as claimed: once play_pause() has succeeded on the Monitor stream alone
\* and everything is at rest, a '-PLAYBACK_ERROR-' event has been written.
C8_WarningEvent ==
    (AtRest /\ playing /\ StreamOpen /\ last_error = <<"vp">>)
    => emitted.error >= 1

\* C9 as claimed: once an open that started no stream is over and the host
\* and all threads have finished, the engine is stopped with no stream
\* referenced, one '-PLAYBACK_ERROR-' event carrying last_error was written,
\* and the loaded audio is still in place.
C9_NoStreamMeansStopped ==
    (open_failed /\ ctl.pc = "idle" /\ Threads = {})
    => /\ ~playing /\ ~StreamOpen
       /\ emitted.error = 1 /\ last_error_event = last_error
       /\ audio_loaded /\ ~instrumental_audio_data.isNone

\* C10: the block the Monitor callback writes for cursor c and request size n
\* has n rows, and sample k of it is clip(inst[c+k] * instrumental_volume +
\* voc[c+k] * vocal_volume, -1, 1) on both channels, each buffer read as 0
\* beyond its own end; so every sample lies in [-1, 1].
C10_MonitorMix ==
    \A s \in StreamIds :
        (streams[s].kind = "hp" /\ streams[s].cb = "run") =>
            /\ Len(streams[s].out) = streams[s].n
            /\ \A k \in 1..streams[s].n, ch \in 1..2 :
                  /\ streams[s].out[k][ch] =
                        Clip(SampleAt(instrumental_audio_data,
                                      streams[s].start + k, ch)
                                * instrumental_volume
                             + SampleAt(vocal_audio_data,
                                        streams[s].start + k, ch)
                                * vocal_volume)
                  /\ streams[s].out[k][ch] >= -1000
                  /\ streams[s].out[k][ch] <= 1000

\* C10, witness: one block in which a sample was clipped to 1 and, after the
\* end of the vocal, the instrumental plays on alone.
C10_Witness ==
    \E s \in StreamIds :
        /\ streams[s].kind = "hp" /\ streams[s].cb = "run"
        /\ \E k1 \in 1..streams[s].n, k2 \in 1..streams[s].n :
              /\ streams[s].start + k1 <= BufLen(vocal_audio_data)
              /\ streams[s].start + k2 > BufLen(vocal_audio_data)
              /\ streams[s].start + k2 <= BufLen(instrumental_audio_data)
              /\ streams[s].out[k1][1] = 1000
              /\ SampleAt(instrumental_audio_data, streams[s].start + k1, 1)
                    * instrumental_volume
                 + SampleAt(vocal_audio_data, streams[s].start + k1, 1)
                    * vocal_volume > 1000
              /\ streams[s].out[k2][1] > 0
              /\ streams[s].out[k2][1] =
                    SampleAt(instrumental_audio_data, streams[s].start + k2, 1)
                       * instrumental_volume

\* a callback of the Monitor / Broadcast stream s is in progress
HpRunning(s) == streams[s].kind = "hp" /\ streams[s].cb = "run"
VpRunning(s) == streams[s].kind = "vp" /\ streams[s].cb = "run"

\* C11 as claimed: the block the Broadcast callback writes for cursor c and
\* request size n has n rows, and sample k of it is clip(inst[c+k] *
\* instrumental_volume, -1, 1) on both channels, the instrumental read as 0
\* beyond its end; so every sample lies in [-1, 1] for every
\* instrumental_volume in [0, 1.5].
C11_BroadcastMix ==
    \A s \in StreamIds :
        VpRunning(s) =>
            /\ Len(streams[s].out) = streams[s].n
            /\ \A k \in 1..streams[s].n, ch \in 1..2 :
                  /\ streams[s].out[k][ch] =
                        Clip(SampleAt(instrumental_audio_data,
                                      streams[s].start + k, ch)
                                * instrumental_volume)
                  /\ streams[s].out[k][ch] >= -1000
                  /\ streams[s].out[k][ch] <= 1000

\* C12: the Monitor callback signals stop exactly when the cursor it read is
\* at or past the end of both buffers, the Broadcast callback exactly when
\* the cursor it read is at or past the end of the instrumental; so a
\* Monitor stream that has stopped has its cursor past both buffers, a
\* Broadcast stream that has stopped has its cursor past the instrumental,
\* and a stream stops only through its own callback.
C12_StopSignals ==
    /\ [](\A s \in StreamIds :
            /\ HpRunning(s) =>
                  (streams[s].stop <=>
                      /\ streams[s].start >= BufLen(instrumental_audio_data)
                      /\ streams[s].start >= BufLen(vocal_audio_data))
            /\ VpRunning(s) =>
                  (streams[s].stop <=>
                      streams[s].start >= BufLen(instrumental_audio_data))
            /\ (streams[s].kind = "hp" /\ ~streams[s].active) =>
                  /\ hp_frame >= BufLen(instrumental_audio_data)
                  /\ hp_frame >= BufLen(vocal_audio_data)
            /\ (streams[s].kind = "vp" /\ ~streams[s].active) =>
                  vp_frame >= BufLen(instrumental_audio_data))
    /\ [][\A s \in StreamIds :
            (streams[s].active /\ ~streams'[s].active) =>
                /\ streams[s].cb = "run" /\ streams[s].stop
                /\ streams[s].kind = "hp" => vp_frame' = vp_frame
                /\ streams[s].kind = "vp" => hp_frame' = hp_frame]_vars

\* C12, witness: the instrumental is shorter than the vocal, the Broadcast
\* stream has stopped at the end of the instrumental, and the Monitor
\* stream, past the end of the instrumental, renders the vocal alone.
C12_Witness ==
    /\ BufLen(instrumental_audio_data) < BufLen(vocal_audio_data)
    /\ virtual_stream # NoStream /\ ~streams[virtual_stream].active
    /\ headphone_stream # NoStream /\ streams[headphone_stream].active
    /\ HpRunning(headphone_stream)
    /\ ~streams[headphone_stream].stop
    /\ streams[headphone_stream].start >= BufLen(instrumental_audio_data)
    /\ streams[headphone_stream].start + streams[headphone_stream].n
          <= BufLen(vocal_audio_data)
    /\ vocal_volume > 0
    /\ \A k \in 1..streams[headphone_stream].n :
          /\ streams[headphone_stream].out[k][1] > 0
          /\ streams[headphone_stream].out[k][1] =
                Clip(vocal_audio_data.rows[streams[headphone_stream].start
                                           + k][1] * vocal_volume)

\* the control thread is inside stop_immediate()
InStopImmediate == ctl.pc \in {"c_lock", "c_body"}

\* C13: no step of stop_immediate() changes position, duration, the two
\* cursors, the two buffers, the volumes or the device ids; when it returns
\* no stream is referenced and playing is False.  In the host's '-STOP-'
\* handler the control thread changes position only in the seek(0.0) that
\* follows, which sets it to 0.
C13_StopFrame ==
    [][/\ (InStopImmediate /\ ctl' # ctl)
            => /\ UNCHANGED <<position, duration, hp_frame, vp_frame,
                              instrumental_audio_data, vocal_audio_data,
                              instrumental_volume, vocal_volume,
                              headphone_device_id, virtual_device_id>>
               /\ ~InStopImmediate'
                     => /\ headphone_stream' = NoStream
                        /\ virtual_stream' = NoStream
                        /\ ~playing'
       /\ (/\ hist # <<>> /\ hist[Len(hist)].op = "stop"
           /\ ctl' # ctl /\ position' # position)
            => /\ ctl.pc = "sk_write" /\ ctl.req = 0
               /\ position' = 0]_vars

\* C13, witness: stop_immediate() has returned in the '-STOP-' handler of a
\* playing engine, the streams are closed, and position and the cursor are
\* where playback stood; seek(0.0) is still to run.
C13_Witness ==
    /\ hist # <<>> /\ hist[Len(hist)].op = "stop" /\ hist[Len(hist)].was
    /\ ctl.pc = "seek" /\ ctl.req = 0
    /\ ~playing /\ ~StreamOpen
    /\ position > 0 /\ hp_frame > 0
    /\ ~instrumental_audio_data.isNone

\* this step is the end of a _close_streams(), on a worker thread or on the
\* control thread
CloseReturns ==
    \/ \E t \in Threads :
          /\ Closer(t) /\ t.pc \in {"c_lock", "c_body"}
          /\ Leaves(t) /\ ~stream_lock'
    \/ InStopImmediate /\ ~InStopImmediate'

\* C14: every _close_streams(), on any thread and with both, one or no
\* stream referenced, active or already stopped, ends with headphone_stream
\* and virtual_stream None, the streams it found closed and playing False;
\* one that starts in such a state changes nothing of the engine.
C14_CloseIdempotent ==
    [][CloseReturns
        => /\ headphone_stream' = NoStream /\ virtual_stream' = NoStream
           /\ ~playing'
           /\ \A s \in Referenced : streams'[s] = NoStreamObj
           /\ \A s \in StreamIds \ Referenced : streams'[s] = streams[s]
           /\ UNCHANGED <<audio_loaded, sample_rate, last_error, bufs,
                          cursors, cfg, pend, restart_lock, emitted, window>>
           /\ (~StreamOpen /\ ~playing)
                 => UNCHANGED <<refs, playing, streams>>]_vars

\* C14, witness: two play_pause() calls made while playing started two close
\* threads, and the monitor closed once more; all of them have returned.
C14_Witness ==
    /\ AtRest /\ Threads = {}
    /\ Len(hist) >= 3
    /\ hist[Len(hist)].op = "play_pause" /\ hist[Len(hist)].was
    /\ hist[Len(hist) - 1].op = "play_pause" /\ hist[Len(hist) - 1].was
    /\ ~playing /\ ~StreamOpen
    /\ emitted.ended = 0

\* the debounce window held n requests, all of them seek() calls
SeeksOnly(t, n) == t.gabs /\ t.gn = n

\* C15: seek() calls made while playing, each before the timer of the one
\* before it expires and with no request after the last of them, leave one
\* pending timer, that of the last call; the restart it starts gets the
\* target max(0, min(an, duration)), an being the argument of the last call,
\* and no timer and no restart of an earlier call of the window is left.
C15_SeekBurstOnce ==
    /\ \A t \in TimersAlive(thr) :
          (t.gabs /\ t.id = timers_made) => TimersAlive(thr) = {t}
    /\ \A r \in FreshRestarts :
          (r.gabs /\ r.id = timers_made) =>
              /\ r.arg = Max(0, Min(r.glast, r.gdur))
              /\ \A u \in TimersAlive(thr) : u.id > r.id
              /\ \A q \in FreshRestarts : q.id >= r.id

\* C15, witness: the restart of a window of three seek() calls, started for
\* the target of the third, which lies inside the track.
C15_Witness ==
    \E r \in FreshRestarts :
        /\ SeeksOnly(r, 3)
        /\ r.glast > 0 /\ r.glast < r.gdur
        /\ r.arg = r.glast
        /\ TimersAlive(thr) = {}

\* C16 as claimed: a timer function takes the pending seek and dispatches a
\* restart only if its timer is the last one armed (no later request has
\* replaced it) and a seek is pending (the pending absolute target is not
\* None or the pending delta is not 0).
C16_NoStaleDispatch ==
    [][\A t \in Threads :
          (Fired(t) /\ Leaves(t))
          => /\ t.id = timers_made
             /\ pending_seek_absolute # NoneT \/ pending_seek_delta # 0]_vars

\* the restart workers inside the close-then-reopen sequence
InRestart == {t \in Threads : t.kind = "restart" /\ t.pc # "r_lock"}

\* C17: at most one restart worker is between taking _restart_lock and
\* releasing it, that is inside its _close_streams / _open_streams steps,
\* and _restart_lock is held while one is.
C17_OneRestartAtATime ==
    /\ Cardinality(InRestart) <= 1
    /\ \A t \in InRestart : CopiesIn(t, thr) = 1 /\ restart_lock

\* C17, witness: one restart worker is opening the Monitor stream while
\* another, dispatched meanwhile, waits for _restart_lock.
C17_Witness ==
    /\ \E t \in InRestart : t.pc = "o_hp"
    /\ FreshRestarts # {}
    /\ restart_lock

\* C18 as claimed: while playing, seek(A) followed in the same debounce
\* window by one forward_5sec() or rewind_5sec() of d seconds, with nothing
\* pending before and no request after, starts a restart whose target is
\* A + d clamped to [0, duration], whether A is clamped first or not.
C18_AbsoluteThenRelative ==
    \A r \in FreshRestarts :
        (/\ r.gn = 2 /\ r.gclean /\ r.id = timers_made
         /\ Len(hist) >= 2
         /\ hist[Len(hist) - 1].op = "seek" /\ hist[Len(hist) - 1].was
         /\ hist[Len(hist)].op \in {"forward", "rewind"}
         /\ hist[Len(hist)].was)
        => \/ r.arg = Max(0, Min(hist[Len(hist) - 1].a + r.glast, r.gdur))
           \/ r.arg = Max(0, Min(Max(0, Min(hist[Len(hist) - 1].a, r.gdur))
                                    + r.glast, r.gdur))

\* C19: the pending absolute target and the pending delta are never both set
\* (outside the critical sections of _seek_lock, each of which is one step
\* here), and the step in which a timer function takes its snapshot leaves
\* the pending absolute target None, the pending delta 0 and _seek_timer
\* None.
C19_PendingModesExclusive ==
    /\ [](pending_seek_absolute = NoneT \/ pending_seek_delta = 0)
    /\ [][\A t \in Threads :
             (Fired(t) /\ Leaves(t))
             => /\ pending_seek_absolute' = NoneT
                /\ pending_seek_delta' = 0
                /\ seek_timer' = NoneT]_vars

\* C19, witness: the timer of a window that mixed seek() with relative
\* requests has taken its snapshot and started its restart; nothing is
\* pending.
C19_Witness ==
    /\ \E r \in FreshRestarts :
          /\ r.gn >= 2 /\ r.gclean /\ ~r.gabs /\ ~r.gfwd
          /\ r.id = timers_made
    /\ \E i \in 1..Len(hist) : hist[i].op = "seek" /\ hist[i].was
    /\ pending_seek_absolute = NoneT /\ pending_seek_delta = 0
    /\ seek_timer = NoneT

\* the restart worker that timer t starts in this step gets the target sec
StartsRestartAt(t, sec) ==
    \E r \in BagToSet(thr') :
        /\ r.kind = "restart" /\ r.pc = "r_lock" /\ r.id = t.id
        /\ CopiesIn(r, thr') > CopiesIn(r, thr)
        /\ r.arg = sec
\* the baseline of a relative seek as claimed: the position of the Monitor
\* cursor while a Monitor stream is open, the position attribute otherwise
ClaimedBaseline ==
    IF headphone_stream # NoStream
    THEN SecondsOfFrame(hp_frame, sample_rate)
    ELSE position

\* C20 as claimed: a timer function that finds a relative seek pending
\* starts a restart at max(0, min(b + delta, duration)), b being the
\* position of the Monitor cursor read at that moment if a Monitor stream is
\* open, and the position attribute if none is.
C20_RelativeBaseline ==
    [][\A t \in Threads :
          /\ (/\ Fired(t) /\ Leaves(t)
              /\ pending_seek_absolute = NoneT /\ ~stream_lock)
                => StartsRestartAt(t, Max(0, Min(ClaimedBaseline
                                                    + pending_seek_delta,
                                                 duration)))
          /\ (/\ t.kind = "timer" /\ t.pc = "t_dispatch" /\ Leaves(t)
              /\ t.pabs = NoneT)
                => StartsRestartAt(t, Max(0, Min(ClaimedBaseline + t.pdelta,
                                                 duration)))]_vars

\* the restart workers there are
Restarts(T) == {t \in BagToSet(T) : t.kind = "restart"}

\* C21: a restart worker waiting for _restart_lock leaves that state only by
\* taking the free lock, and it does so eventually, also when it was started
\* while another restart was in flight; a restart that has the lock ends only
\* after its reopen, with the position published, its monitor started and
\* the lock released; at no time are two restarts inside close/reopen, and
\* in the end every restart has run.
C21_RestartsComplete ==
    /\ (FreshRestarts # {}) ~> (FreshRestarts = {})
    /\ (InRestart # {}) ~> (InRestart = {})
    /\ <>[](Restarts(thr) = {})
    /\ [](Cardinality(InRestart) <= 1)
    /\ [][/\ \A t \in FreshRestarts :
                Leaves(t) =>
                    /\ ~restart_lock /\ restart_lock'
                    /\ \E u \in Restarts(thr') :
                          u.pc = "c_lock" /\ u.arg = t.arg
          /\ \A t \in InRestart :
                (Leaves(t) /\ Restarts(thr') \subseteq FreshRestarts) =>
                    /\ t.pc = "o_fin" /\ t.started
                    /\ t.frame = FrameOfSeconds(t.arg, sample_rate)
                    /\ position' = SecondsOfFrame(t.frame, sample_rate)
                    /\ ~restart_lock'
                    /\ CopiesIn(MonitorThread, thr') >
                          CopiesIn(MonitorThread, thr)]_vars

\* C21, witness: the restart that was started while another one held
\* _restart_lock has taken the lock after it, closed and reopened the stream
\* and is about to publish the position.
C21_Witness ==
    /\ FreshRestarts = {} /\ TimersAlive(thr) = {} /\ timers_made = 2
    /\ restart_lock
    /\ \E t \in InRestart : t.pc = "o_fin" /\ t.started
    /\ IsActive(headphone_stream)

\* the first callback of the stream s is in progress
FirstCallback(s) == streams[s].cb = "run" /\ streams[s].first

\* C22 as claimed: the first callback of every stream that _open_streams
\* started reads, as its cursor, the start frame of that _open_streams call.
C22_FirstCallbackReadsStart ==
    \A s \in StreamIds :
        FirstCallback(s) => streams[s].start = streams[s].init

\* no Broadcast device is set, or it is the device of the Monitor
NoBroadcastDevice ==
    virtual_device_id = NoDev \/ virtual_device_id = headphone_device_id
\* the streams that exist
Existing(S) == {s \in StreamIds : S[s].kind # "none"}

\* C23: a Broadcast stream comes into being only in the Broadcast step of an
\* _open_streams call, with virtual_device_id not None and different from
\* headphone_device_id; while the Broadcast device is omitted or equals the
\* Monitor device, virtual_stream is None, no Broadcast stream exists, an
\* open starts one stream on its way from the Monitor step to its return,
\* and last_error holds no Broadcast error.
C23_BroadcastOnlyWhenDistinct ==
    /\ [](NoBroadcastDevice =>
            /\ virtual_stream = NoStream
            /\ \A s \in StreamIds : streams[s].kind # "vp"
            /\ \A i \in 1..Len(last_error) : last_error[i] # "vp")
    /\ [][/\ \A s \in StreamIds :
                (streams[s].kind # "vp" /\ streams'[s].kind = "vp") =>
                    /\ virtual_device_id # NoDev
                    /\ virtual_device_id # headphone_device_id
                    /\ virtual_stream' = s
                    /\ \E t \in Threads :
                          Opener(t) /\ t.pc = "o_vp" /\ Leaves(t)
          /\ \A t \in Threads :
                (/\ NoBroadcastDevice /\ Opener(t) /\ t.pc = "o_hp"
                 /\ Leaves(t)) =>
                    /\ \E u \in BagToSet(thr') :
                          /\ Opener(u) /\ u.pc = "o_ret"
                          /\ CopiesIn(u, thr') > CopiesIn(u, thr)
                    /\ Cardinality(Existing(streams') \ Existing(streams))
                          <= 1]_vars

\* C23, witness: with the Broadcast device equal to the Monitor device,
\* playback runs on the Monitor stream alone and no error is recorded.
C23_Witness ==
    /\ virtual_device_id # NoDev /\ virtual_device_id = headphone_device_id
    /\ playing /\ IsActive(headphone_stream) /\ virtual_stream = NoStream
    /\ Cardinality(Existing(streams)) = 1
    /\ last_error = <<>> /\ emitted.error = 0
    /\ \E t \in Threads : t.kind = "monitor"

\* a stream of the given kind is open before and after this step
StaysOpen(kind) ==
    \E s \in StreamIds : streams[s].kind = kind /\ streams'[s].kind = kind

\* C24 as claimed: no step taken while a Monitor stream is open makes the
\* Monitor cursor smaller, and no step taken while a Broadcast stream is
\* open makes the Broadcast cursor smaller.
C24_CursorMonotonic ==
    [][/\ StaysOpen("hp") => hp_frame' >= hp_frame
       /\ StaysOpen("vp") => vp_frame' >= vp_frame]_vars

\* C25 as claimed: when an _open_streams call, of a restart or of
\* play_pause()'s background thread, writes the start frame into the two
\* cursors, no stream opened earlier is still open and no callback is
\* running.
C25_InitAfterClose ==
    [][\A t \in Threads :
          (Opener(t) /\ t.pc = "o_init" /\ Leaves(t))
          => /\ Existing(streams) = {}
             /\ \A s \in StreamIds : streams[s].cb = "idle"]_vars

\* this step is a write of the two cursors by a thread other than a
\* callback: _open_streams, the load worker, a paused seek or relative seek
CursorWrite ==
    \/ \E t \in Threads :
          /\ \/ Opener(t) /\ t.pc = "o_init"
             \/ t.kind = "load" /\ t.pc = "l_swap"
          /\ Leaves(t)
    \/ ctl.pc \in {"sk_write", "adj_write"} /\ ctl' # ctl
\* a callback of stream s has read its cursor and will write it back advanced
MidCallback(s) == streams[s].cb = "run" /\ streams[s].adv

\* C26 as claimed: a callback's read-advance-write of its cursor is one
\* critical section of _stream_lock, so no other writer of the cursors
\* (seek, relative seek, _open_streams, load), each of which writes under
\* that lock, writes between a callback's read of its cursor and its write:
\* no value they wrote is overwritten by a callback that read before it.
C26_CallbackAtomic ==
    [][CursorWrite => \A s \in StreamIds : ~MidCallback(s)]_vars

\* a thread is inside stream.stop(), waiting for a callback of that stream
\* to return
InDeviceStop ==
    \/ \E t \in Threads : Closer(t) /\ t.pc = "c_body"
    \/ ctl.pc = "c_body"

\* C27 as claimed: _stream_lock is not held while a thread is inside a
\* blocking device operation.
C27_NoDeviceOpUnderLock == InDeviceStop => ~stream_lock

\* the number of monitor threads inside the loop of _playback_monitor
MonitorLoops == CopiesIn(MonitorThread, thr) + CopiesIn(SleepingMonitor, thr)

\* C28 as claimed: at most one _playback_monitor loop is alive at any time.
C28_OneMonitor == MonitorLoops <= 1

\* a stream is open whose callback has signalled stop
StoppedStream == \E s \in Existing(streams) : ~streams[s].active

\* C29 as claimed: a monitor writes '-PLAYBACK_ENDED-' only when a stream
\* of the running session has stopped at the end of the buffers; pause,
\* stop, seek restarts and a quick pause-then-play produce no such event.
C29_EndedOnlyAtEnd ==
    [][emitted'.ended > emitted.ended => StoppedStream]_vars

\* round(x) for the rational x = n / d with n >= 0 and d > 0: the nearest
\* integer, a tie going to the even one
RoundNearest(n, d) ==
    LET q == n \div d
        r == n % d
    IN  IF 2 * r < d THEN q
        ELSE IF 2 * r > d THEN q + 1
        ELSE IF q % 2 = 0 THEN q ELSE q + 1
\* round(seconds * sample_rate)
NearestFrame(sec, sr) == RoundNearest(sec * sr, TicksPerSecond)

\* C30 as claimed: a paused seek, play_pause() and a restart use the start
\* frame round(target_seconds * sample_rate); a restart publishes that frame
\* divided by sample_rate as the position, which differs from its target by
\* at most half a frame period.
C30_RoundedFrame ==
    [][/\ (ctl.pc \in {"sk_write", "adj_write"} /\ ctl' # ctl)
            => hp_frame' = NearestFrame(ctl.arg, sample_rate)
       /\ \A t \in Threads :
            /\ (t.kind = "restart" /\ t.pc = "o_init" /\ Leaves(t))
                  => hp_frame' = NearestFrame(t.arg, sample_rate)
            /\ (t.kind = "restart" /\ t.pc = "o_fin" /\ Leaves(t))
                  => /\ position' * sample_rate = t.frame * TicksPerSecond
                     /\ 2 * sample_rate * (position' - t.arg)
                           <= TicksPerSecond
                     /\ 2 * sample_rate * (t.arg - position')
                           <= TicksPerSecond
       /\ \A u \in BagToSet(thr') :
            (/\ u.kind = "start_bg" /\ u.pc = "o_init"
             /\ CopiesIn(u, thr') > CopiesIn(u, thr))
                  => u.frame = NearestFrame(position, sample_rate)]_vars

\* this step is the end of a _close_streams call
CloseEnds ==
    \/ \E t \in Threads : Closer(t) /\ t.pc \in {"c_lock", "c_body"}
                          /\ Leaves(t) /\ ~stream_lock'
    \/ ctl.pc \in {"c_lock", "c_body"} /\ ctl'.pc \notin {"c_lock", "c_body"}
\* the streams of one kind that have been started and not closed
OpenOfKind(kind) == {s \in StreamIds : streams[s].kind = kind}

\* C31 as claimed: every stream that was started and not yet closed is the
\* one headphone_stream or virtual_stream refers to, so at most one Monitor
\* and one Broadcast stream are open, and when a _close_streams call
\* returns no stream is open.
C31_NoLeakedStream ==
    /\ [](/\ Existing(streams) \subseteq Referenced
          /\ Cardinality(OpenOfKind("hp")) <= 1
          /\ Cardinality(OpenOfKind("vp")) <= 1)
    /\ [][CloseEnds => Existing(streams') = {}]_vars

\* the last thing the host did was a stop whose stop_immediate() has
\* returned, or a pausing play_pause() whose close thread has finished
StoppedByHost ==
    /\ hist # <<>>
    /\ LET last == hist[Len(hist)]
       IN  \/ last.op = "stop" /\ ctl.pc \notin {"c_lock", "c_body"}
           \/ /\ last.op = "play_pause" /\ last.was
              /\ \A t \in Threads : t.kind # "close"

\* C32 as claimed: from the return of stop_immediate(), or the end of the
\* close thread of a pausing play_pause(), until the next call of the host,
\* playing is False and no stream is opened, also when a seek, rewind or
\* forward request was pending in the debounce timer at that moment.
C32_StopIsSticky ==
    /\ [](StoppedByHost => ~playing)
    /\ [][(StoppedByHost /\ StoppedByHost')
          => Existing(streams') \subseteq Existing(streams)]_vars

\* C33 as claimed: once audio is loaded the position the host reads lies
\* between 0 and the duration, also after a callback has advanced the
\* Monitor cursor beyond the end of the instrumental buffer and the monitor
\* loop has published that cursor.
C33_PositionInRange ==
    audio_loaded => (0 <= position /\ position <= duration)

\* this step is a play_pause() that resumes playback: the call before it
\* was a pausing play_pause(), whose close thread has finished, every
\* stream is closed and no seek restart is pending or under way
ResumeAfterPause ==
    /\ ctl.pc = "idle" /\ ctl'.pc = "pp_set"
    /\ hist # <<>>
    /\ hist[Len(hist)].op = "play_pause" /\ hist[Len(hist)].was
    /\ Existing(streams) = {}
    /\ \A t \in Threads : t.kind = "monitor"

\* C34 as claimed: a play_pause() that resumes after a pause, with no seek
\* in between, passes to _open_streams the frame the Monitor cursor had when
\* the streams were closed, which the cursor still holds.
C34_ResumeAtCursor ==
    [][ResumeAfterPause
       => \E u \in BagToSet(thr') :
             u.kind = "start_bg" /\ u.pc = "o_init" /\ u.frame = hp_frame]_vars

\* no open, close, restart or load worker runs, no debounce timer is armed
\* or running, and the host is between two calls
Quiescent ==
    /\ ctl.pc = "idle"
    /\ \A t \in Threads : t.kind = "monitor"
\* a thread is inside _playback_monitor
MonitorAlive == \E t \in Threads : t.kind = "monitor"

\* C36 as claimed: in every quiescent state playing is True exactly when a
\* stream is referenced and a monitor is alive.
C36_PlayingAgreesWithStreams ==
    Quiescent => (playing <=> (StreamOpen /\ MonitorAlive))

\* the last call of the host was a seek() that found playing False, it has
\* returned, and no request is pending in a timer or in another restart
SeekApplied(t) ==
    /\ ctl.pc = "idle" /\ todo = <<>>
    /\ hist[Len(hist)].op = "seek" /\ ~hist[Len(hist)].was
    /\ TimersAlive(thr) = {}
    /\ pending_seek_absolute = NoneT /\ pending_seek_delta = 0
    /\ Restarts(thr) = {t}

\* C35 as claimed: a seek(s) that arrives while a restart is between its
\* _close_streams and its _open_streams is not lost: the position the
\* engine settles at when that restart has finished is the one the seek
\* asked for, max(0, min(s, duration)).
C35_SeekNotLost ==
    [][\A t \in Threads :
          (t.kind = "restart" /\ t.pc = "o_fin" /\ Leaves(t) /\ SeekApplied(t))
          => position' = ClampSeconds(hist[Len(hist)].a, duration)]_vars

\* the threads that hold _stream_lock across steps: those blocked in
\* stream.stop() inside _close_streams
StreamLockHolders == {t \in Threads : Closer(t) /\ t.pc = "c_body"}
\* the host and every thread have finished and both locks are free
AllFinished ==
    /\ Threads = {} /\ ctl.pc = "idle"
    /\ ~stream_lock /\ ~restart_lock

\* C37: no thread waits forever for a lock.  While _stream_lock is held its
\* one holder is inside _close_streams, where it waits for nothing but the
\* return of a callback; while _restart_lock is held its holder is
\* the one restart worker inside close/reopen, so the only nesting is
\* _restart_lock outside _stream_lock; and under fair scheduling every
\* session ends with the host idle, every thread finished and both locks
\* free.  (The critical sections of _seek_lock, lines 481-491, 534-538 and
\* 560-572, take no lock and block nowhere; each is one step here.)
C37_DeadlockFree ==
    /\ [](stream_lock =>
            /\ Cardinality(StreamLockHolders)
                 + (IF ctl.pc = "c_body" THEN 1 ELSE 0) = 1
            /\ \A t \in StreamLockHolders : CopiesIn(t, thr) = 1)
    /\ [](restart_lock => Cardinality(InRestart) = 1)
    /\ <>[]AllFinished

\* C37, witness: a restart worker holds _restart_lock and, blocked in
\* stream.stop(), _stream_lock, while the control thread is in
\* stop_immediate() and waits for _stream_lock.
C37_Witness ==
    /\ stream_lock /\ restart_lock
    /\ \E t \in StreamLockHolders : t.kind = "restart"
    /\ ctl.pc = "c_lock"

\* play_pause() has just been called from Stopped, after the load, as the
\* last thing the user does: its background thread is about to start
PlayPressed ==
    /\ todo = <<>> /\ Len(hist) = 2
    /\ hist[2].op = "play_pause" /\ ~hist[2].was
    /\ \E t \in Threads : t.kind = "start_bg" /\ t.pc = "o_init"
\* the host makes no further call: its event loop does not stop the engine
NoHostStop == ctl.pc \notin {"c_lock", "c_body"}
\* the monitor loop has ended the session
PlayedOut ==
    /\ ~playing
    /\ headphone_stream = NoStream /\ virtual_stream = NoStream
    /\ emitted.ended >= 1
    /\ \A t \in Threads : t.kind # "monitor"
\* in this step of a session that the host leaves alone, every stream that
\* is closed has had its callback signal stop
ClosesOnlyStopped ==
    (todo = <<>> /\ Len(hist) = 2 /\ NoHostStop)
    => \A s \in StreamIds :
          (streams[s].kind # "none" /\ streams'[s].kind = "none")
          => (~streams[s].active /\ streams[s].cb = "idle")

\* C38 as claimed: after play_pause() from Stopped with no further host
\* operation, under fair scheduling, the engine eventually has playing True
\* with an active Monitor stream, no stream is closed before its callback
\* has signalled stop, and eventually the monitor has exited with playing
\* False, both stream references None and '-PLAYBACK_ENDED-' written.
C38_PlaysToTheEnd ==
    /\ ([]NoHostStop) =>
          /\ PlayPressed ~> (playing /\ IsActive(headphone_stream))
          /\ PlayPressed ~> PlayedOut
    /\ [][ClosesOnlyStopped]_vars

\* C38 (as the code has it): after play_pause() from Stopped with no
\* further host operation, under fair scheduling, the engine eventually has
\* playing True with the Monitor stream it started referenced (the stream is
\* active then unless its callbacks have already reached the end of the
\* buffers), no stream is closed before its callback has signalled stop,
\* and eventually the monitor has exited with playing False, both stream
\* references None and '-PLAYBACK_ENDED-' written.
C38_PlaysToTheEndOnceOpen ==
    /\ ([]NoHostStop) =>
          /\ PlayPressed ~> (playing /\ headphone_stream # NoStream)
          /\ PlayPressed ~> PlayedOut
    /\ [][ClosesOnlyStopped]_vars

\* C38, witness: the session of one play_pause() has run to its end: the
\* cursor is past the end of the track, the event was written once, the
\* streams are closed and every thread has finished.
C38_Witness ==
    /\ todo = <<>> /\ Len(hist) = 2 /\ hist[2].op = "play_pause"
    /\ PlayedOut /\ emitted.ended = 1
    /\ SecondsOfFrame(hp_frame, sample_rate) >= duration
    /\ AllFinished
====
